---- MODULE Spec2Model ----
(***************************************************************************)
(* Model of the blockpedia query composer (src/src/query_builder.rs), the  *)
(* colour representation it rests on (src/src/color/mod.rs) and the block  *)
(* palette generator (src/src/color/block_palettes.rs, palettes.rs).       *)
(*                                                                         *)
(* Conventions.                                                            *)
(*  - A string is a sequence of one-character strings, so that the         *)
(*    substring tests of the source can be computed.                       *)
(*  - Option<T> is a sequence of length 0 (None) or 1 (Some).              *)
(*  - A block reference (&'static BlockFacts) is the index of the block in *)
(*    Universe; the catalog BLOCKS is a sequence of such indices in the    *)
(*    iteration order of the static map.                                   *)
(*  - f32 values are fixed-point integers: Oklab components in units of    *)
(*    1/OkScale, saturation and lightness in units of 1/FP, hue in units   *)
(*    of 1/HueScale degree.  Distances are kept squared (sqrt is monotone, *)
(*    so every comparison is preserved).  An interpolation parameter t is  *)
(*    a fraction <<num, den>>.                                             *)
(***************************************************************************)
EXTENDS Integers, Sequences, FiniteSets, TLC

\* ------------------------------------------------------------------------
\* Bounds of the model
\* ------------------------------------------------------------------------
MaxCatalog == 3
MaxSteps == 3
MaxLimit == 2
\* the query composer's catalogs are drawn from the first MaxQueryBlock blocks of
\* Universe; the palette generator's catalogs from all of them
MaxQueryBlock == 6
\* largest step count of the palette functions called on their own
MaxPaletteSteps == 5
\* largest number of anchor colours of a gradient called on its own
MaxAnchors == 3

\* the most operations one query chain applies after it was started
MaxChainOps == 2

\* ------------------------------------------------------------------------
\* Option and small helpers
\* ------------------------------------------------------------------------
None == <<>>
Some(x) == <<x>>
IsSome(o) == o # <<>>
Unwrap(o) == o[1]

Min(a, b) == IF a < b THEN a ELSE b
Max(a, b) == IF a > b THEN a ELSE b
Abs(a) == IF a < 0 THEN 0 - a ELSE a
Range(s) == {s[i] : i \in DOMAIN s}

\* ------------------------------------------------------------------------
\* str methods
\* ------------------------------------------------------------------------
Lowercase ==
    [A |-> "a", B |-> "b", C |-> "c", D |-> "d", E |-> "e", F |-> "f", G |-> "g",
     H |-> "h", I |-> "i", J |-> "j", K |-> "k", L |-> "l", M |-> "m", N |-> "n",
     O |-> "o", P |-> "p", Q |-> "q", R |-> "r", S |-> "s", T |-> "t", U |-> "u",
     V |-> "v", W |-> "w", X |-> "x", Y |-> "y", Z |-> "z"]

to_lowercase(s) ==
    [i \in 1..Len(s) |-> IF s[i] \in DOMAIN Lowercase THEN Lowercase[s[i]] ELSE s[i]]

contains(text, pat) ==
    \E i \in 0..(Len(text) - Len(pat)) : SubSeq(text, i + 1, i + Len(pat)) = pat

starts_with(text, pat) ==
    Len(pat) <= Len(text) /\ SubSeq(text, 1, Len(pat)) = pat

ends_with(text, pat) ==
    Len(pat) <= Len(text) /\ SubSeq(text, Len(text) - Len(pat) + 1, Len(text)) = pat

\* byte offset of the first occurrence, as Option<usize>
find(text, pat) ==
    IF contains(text, pat)
    THEN Some(CHOOSE i \in 0..(Len(text) - Len(pat)) :
                 /\ SubSeq(text, i + 1, i + Len(pat)) = pat
                 /\ \A j \in 0..(i - 1) : SubSeq(text, j + 1, j + Len(pat)) # pat)
    ELSE None

RECURSIVE split(_, _)
split(s, sep) ==
    IF \E i \in 1..Len(s) : s[i] = sep
    THEN LET i == CHOOSE k \in 1..Len(s) : s[k] = sep /\ \A j \in 1..(k - 1) : s[j] # sep
         IN  <<SubSeq(s, 1, i - 1)>> \o split(SubSeq(s, i + 1, Len(s)), sep)
    ELSE <<s>>

\* byte values of the characters that occur in block identifiers
CharCode ==
    [c \in {":"} |-> 58] @@ [c \in {"_"} |-> 95] @@
    [c \in {"a"} |-> 97] @@ [c \in {"b"} |-> 98] @@ [c \in {"c"} |-> 99] @@
    [c \in {"d"} |-> 100] @@ [c \in {"e"} |-> 101] @@ [c \in {"f"} |-> 102] @@
    [c \in {"g"} |-> 103] @@ [c \in {"h"} |-> 104] @@ [c \in {"i"} |-> 105] @@
    [c \in {"j"} |-> 106] @@ [c \in {"k"} |-> 107] @@ [c \in {"l"} |-> 108] @@
    [c \in {"m"} |-> 109] @@ [c \in {"n"} |-> 110] @@ [c \in {"o"} |-> 111] @@
    [c \in {"p"} |-> 112] @@ [c \in {"q"} |-> 113] @@ [c \in {"r"} |-> 114] @@
    [c \in {"s"} |-> 115] @@ [c \in {"t"} |-> 116] @@ [c \in {"u"} |-> 117] @@
    [c \in {"v"} |-> 118] @@ [c \in {"w"} |-> 119] @@ [c \in {"x"} |-> 120] @@
    [c \in {"y"} |-> 121] @@ [c \in {"z"} |-> 122]

\* str::cmp(a, b) = Less: lexicographic order on bytes
RECURSIVE str_less(_, _)
str_less(a, b) ==
    IF b = <<>> THEN FALSE
    ELSE IF a = <<>> THEN TRUE
    ELSE IF a[1] # b[1] THEN CharCode[a[1]] < CharCode[b[1]]
    ELSE str_less(Tail(a), Tail(b))

\* ------------------------------------------------------------------------
\* String literals of the source and of the modelled catalog
\* ------------------------------------------------------------------------
SolidPatterns ==
    << <<"s","l","a","b">>, <<"s","t","a","i","r","s">>, <<"f","e","n","c","e">>,
       <<"g","a","t","e">>, <<"w","a","l","l">>, <<"d","o","o","r">>,
       <<"t","r","a","p","d","o","o","r">>, <<"b","u","t","t","o","n">>, <<"p","r","e","s","s","u","r","e","_","p","l","a","t","e">>,
       <<"c","a","r","p","e","t">>, <<"t","o","r","c","h">>, <<"l","a","n","t","e","r","n">>,
       <<"c","h","a","i","n">>, <<"r","o","d">>, <<"b","a","r","s">> >>

TileEntityPatterns ==
    << <<"c","h","e","s","t">>, <<"f","u","r","n","a","c","e">>, <<"d","i","s","p","e","n","s","e","r">>,
       <<"d","r","o","p","p","e","r">>, <<"h","o","p","p","e","r">>, <<"b","e","a","c","o","n">>,
       <<"b","r","e","w","i","n","g","_","s","t","a","n","d">>, <<"e","n","c","h","a","n","t","i","n","g","_","t","a","b","l","e">>, <<"e","n","d","e","r","_","c","h","e","s","t">>,
       <<"s","h","u","l","k","e","r","_","b","o","x">>, <<"b","a","r","r","e","l">>, <<"s","m","o","k","e","r">>,
       <<"b","l","a","s","t","_","f","u","r","n","a","c","e">>, <<"c","a","m","p","f","i","r","e">>, <<"l","e","c","t","e","r","n">>,
       <<"j","u","k","e","b","o","x">> >>

FallingPatterns ==
    << <<"s","a","n","d">>, <<"g","r","a","v","e","l">>, <<"a","n","v","i","l">>,
       <<"c","o","n","c","r","e","t","e","_","p","o","w","d","e","r">> >>

TransparentPatterns ==
    << <<"g","l","a","s","s">>, <<"w","a","t","e","r">>, <<"l","a","v","a">>,
       <<"a","i","r">>, <<"i","c","e">>, <<"s","l","i","m","e","_","b","l","o","c","k">>,
       <<"h","o","n","e","y","_","b","l","o","c","k">>, <<"b","a","r","r","i","e","r">>, <<"s","t","r","u","c","t","u","r","e","_","v","o","i","d">> >>

LightSourcePatterns ==
    << <<"t","o","r","c","h">>, <<"l","a","n","t","e","r","n">>, <<"g","l","o","w","s","t","o","n","e">>,
       <<"s","e","a","_","l","a","n","t","e","r","n">>, <<"b","e","a","c","o","n">>, <<"c","a","m","p","f","i","r","e">>,
       <<"f","i","r","e">>, <<"l","a","v","a">>, <<"m","a","g","m","a","_","b","l","o","c","k">>,
       <<"j","a","c","k","_","o","_","l","a","n","t","e","r","n">>, <<"r","e","d","s","t","o","n","e","_","l","a","m","p">>, <<"s","h","r","o","o","m","l","i","g","h","t">>,
       <<"c","r","y","i","n","g","_","o","b","s","i","d","i","a","n">>, <<"r","e","s","p","a","w","n","_","a","n","c","h","o","r">>, <<"c","a","n","d","l","e">>,
       <<"g","l","o","w","_","l","i","c","h","e","n">>, <<"a","m","e","t","h","y","s","t","_","c","l","u","s","t","e","r">> >>

SupportPatterns ==
    << <<"t","o","r","c","h">>, <<"f","l","o","w","e","r">>, <<"f","e","r","n">>,
       <<"s","a","p","l","i","n","g">>, <<"w","h","e","a","t">>, <<"c","a","r","r","o","t">>,
       <<"p","o","t","a","t","o">>, <<"b","e","e","t","r","o","o","t">>, <<"s","u","g","a","r","_","c","a","n","e">>,
       <<"c","a","c","t","u","s">>, <<"b","a","m","b","o","o">>, <<"v","i","n","e">>,
       <<"l","i","l","y","_","p","a","d">>, <<"s","e","a","g","r","a","s","s">>, <<"k","e","l","p">>,
       <<"b","u","t","t","o","n">>, <<"l","e","v","e","r">>, <<"s","i","g","n">>,
       <<"b","a","n","n","e","r">>, <<"p","a","i","n","t","i","n","g">> >>

CreativePatterns ==
    << <<"b","a","r","r","i","e","r">>, <<"s","t","r","u","c","t","u","r","e","_","v","o","i","d">>, <<"s","t","r","u","c","t","u","r","e","_","b","l","o","c","k">>,
       <<"c","o","m","m","a","n","d","_","b","l","o","c","k">>, <<"c","h","a","i","n","_","c","o","m","m","a","n","d","_","b","l","o","c","k">>, <<"r","e","p","e","a","t","i","n","g","_","c","o","m","m","a","n","d","_","b","l","o","c","k">>,
       <<"j","i","g","s","a","w">>, <<"d","e","b","u","g","_","s","t","i","c","k">>, <<"k","n","o","w","l","e","d","g","e","_","b","o","o","k">>,
       <<"s","p","a","w","n","_","e","g","g">> >>

\* the string literals of needs_support and get_block_family
Literals ==
    [grass |-> <<"g","r","a","s","s">>,
     grass_block |-> <<"g","r","a","s","s","_","b","l","o","c","k">>,
     mushroom |-> <<"m","u","s","h","r","o","o","m">>,
     mushroom_block |-> <<"m","u","s","h","r","o","o","m","_","b","l","o","c","k">>,
     coral |-> <<"c","o","r","a","l">>,
     coral_block |-> <<"c","o","r","a","l","_","b","l","o","c","k">>,
     suffix_stairs |-> <<"_","s","t","a","i","r","s">>,
     suffix_slab |-> <<"_","s","l","a","b">>,
     suffix_wool |-> <<"_","w","o","o","l">>,
     suffix_concrete |-> <<"_","c","o","n","c","r","e","t","e">>,
     suffix_log |-> <<"_","l","o","g">>,
     suffix_planks |-> <<"_","p","l","a","n","k","s">>,
     suffix_leaves |-> <<"_","l","e","a","v","e","s">>,
     stone |-> <<"s","t","o","n","e">>,
     redstone |-> <<"r","e","d","s","t","o","n","e">>,
     glass |-> <<"g","l","a","s","s">>,
     stairs |-> <<"s","t","a","i","r","s">>,
     slab |-> <<"s","l","a","b">>,
     wool |-> <<"w","o","o","l">>,
     concrete |-> <<"c","o","n","c","r","e","t","e">>,
     log |-> <<"l","o","g">>,
     planks |-> <<"p","l","a","n","k","s">>,
     leaves |-> <<"l","e","a","v","e","s">>]

\* block identifiers; `missing` names no block
ID ==
    [barrier |-> <<"m","i","n","e","c","r","a","f","t",":","b","a","r","r","i","e","r">>,
     stone |-> <<"m","i","n","e","c","r","a","f","t",":","s","t","o","n","e">>,
     chest |-> <<"m","i","n","e","c","r","a","f","t",":","c","h","e","s","t">>,
     stone_slab |-> <<"m","i","n","e","c","r","a","f","t",":","s","t","o","n","e","_","s","l","a","b">>,
     red_sand |-> <<"m","i","n","e","c","r","a","f","t",":","r","e","d","_","s","a","n","d">>,
     wall_torch |-> <<"m","i","n","e","c","r","a","f","t",":","w","a","l","l","_","t","o","r","c","h">>,
     cobblestone |-> <<"m","i","n","e","c","r","a","f","t",":","c","o","b","b","l","e","s","t","o","n","e">>,
     glowstone |-> <<"m","i","n","e","c","r","a","f","t",":","g","l","o","w","s","t","o","n","e">>,
     missing |-> <<"n","o","n","e","x","i","s","t","e","n","t",":","i","m","p","o","s","s","i","b","l","e","_","b","l","o","c","k">>]


\* ------------------------------------------------------------------------
\* BlockFacts and the blocks the catalog is drawn from
\* ------------------------------------------------------------------------
Facing == <<"facing", <<"north", "south", "west", "east">>>>
Waterlogged == <<"waterlogged", <<"true", "false">>>>

BlockFacts(id, properties, default_state, transparent, color) ==
    [id |-> id, properties |-> properties, default_state |-> default_state,
     transparent |-> transparent, color |-> color]

Universe ==
    << BlockFacts(ID.barrier, <<>>, <<>>, TRUE, None),
       BlockFacts(ID.stone, <<>>, <<>>, FALSE, Some(<<125, 125, 125>>)),
       BlockFacts(ID.chest,
                  <<Facing, <<"type", <<"single", "left", "right">>>>, Waterlogged>>,
                  <<<<"facing", "north">>, <<"type", "single">>, <<"waterlogged", "false">>>>,
                  FALSE, None),
       BlockFacts(ID.stone_slab,
                  <<<<"type", <<"top", "bottom", "double">>>>, Waterlogged>>,
                  <<<<"type", "bottom">>, <<"waterlogged", "false">>>>,
                  FALSE, Some(<<125, 125, 125>>)),
       BlockFacts(ID.red_sand, <<>>, <<>>, FALSE, Some(<<190, 102, 33>>)),
       BlockFacts(ID.wall_torch, <<Facing>>, <<<<"facing", "north">>>>,
                  TRUE, Some(<<138, 113, 63>>)),
       BlockFacts(ID.cobblestone, <<>>, <<>>, FALSE, Some(<<127, 127, 127>>)),
       BlockFacts(ID.glowstone, <<>>, <<>>, FALSE, None) >>

id(block) == Universe[block].id

has_property(block, property) ==
    \E i \in DOMAIN Universe[block].properties : Universe[block].properties[i][1] = property

get_property_values(block, property) ==
    LET props == Universe[block].properties
    IN  IF \E i \in DOMAIN props : props[i][1] = property
        THEN Some(props[CHOOSE i \in DOMAIN props :
                          props[i][1] = property /\ \A j \in 1..(i - 1) : props[j][1] # property][2])
        ELSE None

get_property(block, property) ==
    LET st == Universe[block].default_state
    IN  IF \E i \in DOMAIN st : st[i][1] = property
        THEN Some(st[CHOOSE i \in DOMAIN st :
                       st[i][1] = property /\ \A j \in 1..(i - 1) : st[j][1] # property][2])
        ELSE None

\* ------------------------------------------------------------------------
\* Block classification helpers
\* ------------------------------------------------------------------------
ContainsAny(text, patterns) == \E k \in DOMAIN patterns : contains(text, patterns[k])

is_solid_block(block) == ~ContainsAny(to_lowercase(id(block)), SolidPatterns)

is_tile_entity(block) == ContainsAny(to_lowercase(id(block)), TileEntityPatterns)

is_falling_block(block) == ContainsAny(to_lowercase(id(block)), FallingPatterns)

is_transparent(block) == ContainsAny(to_lowercase(id(block)), TransparentPatterns)

is_light_source(block) == ContainsAny(to_lowercase(id(block)), LightSourcePatterns)

needs_support(block) ==
    LET lid == to_lowercase(id(block))
    IN  \/ ContainsAny(lid, SupportPatterns)
        \/ (contains(lid, Literals.grass) /\ ~contains(lid, Literals.grass_block))
        \/ (contains(lid, Literals.mushroom) /\ ~contains(lid, Literals.mushroom_block))
        \/ (contains(lid, Literals.coral) /\ ~contains(lid, Literals.coral_block))

is_survival_obtainable(block) == ~ContainsAny(to_lowercase(id(block)), CreativePatterns)

RECURSIVE MatchParts(_, _, _, _)
MatchParts(text, parts, i, search_pos) ==
    IF i >= Len(parts) THEN TRUE
    ELSE LET part == parts[i + 1]
         IN  IF part = <<>> THEN MatchParts(text, parts, i + 1, search_pos)
             ELSE IF i = 0
                  THEN IF ~starts_with(text, part) THEN FALSE
                       ELSE MatchParts(text, parts, i + 1, Len(part))
             ELSE IF i = Len(parts) - 1
                  THEN IF ~ends_with(text, part) THEN FALSE
                       ELSE MatchParts(text, parts, i + 1, search_pos)
             ELSE LET pos == find(SubSeq(text, search_pos + 1, Len(text)), part)
                  IN  IF IsSome(pos)
                      THEN MatchParts(text, parts, i + 1, search_pos + Unwrap(pos) + Len(part))
                      ELSE FALSE

matches_pattern(text, pattern) ==
    LET parts == split(pattern, "*")
    IN  IF parts = <<>> THEN TRUE ELSE MatchParts(text, parts, 0, 0)

get_block_family(block) ==
    LET bid == id(block)
        colon_pos == find(bid, <<":">>)
    IN  IF IsSome(colon_pos)
        THEN LET name_part == SubSeq(bid, Unwrap(colon_pos) + 2, Len(bid))
             IN  IF ends_with(name_part, Literals.suffix_stairs) THEN Literals.stairs
                 ELSE IF ends_with(name_part, Literals.suffix_slab) THEN Literals.slab
                 ELSE IF ends_with(name_part, Literals.suffix_wool) THEN Literals.wool
                 ELSE IF ends_with(name_part, Literals.suffix_concrete) THEN Literals.concrete
                 ELSE IF ends_with(name_part, Literals.suffix_log) THEN Literals.log
                 ELSE IF ends_with(name_part, Literals.suffix_planks) THEN Literals.planks
                 ELSE IF ends_with(name_part, Literals.suffix_leaves) THEN Literals.leaves
                 ELSE IF contains(name_part, Literals.stone) /\ ~contains(name_part, Literals.redstone)
                      THEN Literals.stone
                 ELSE IF contains(name_part, Literals.glass) THEN Literals.glass
                 ELSE name_part
        ELSE bid

\* ------------------------------------------------------------------------
\* ExtendedColorData (fixed point; the lab and oklch fields are produced by
\* the external palette crate and are not represented)
\* ------------------------------------------------------------------------
OkScale == 25500
FP == 10000
HueScale == 100

\* the float-to-integer cast `as u8` of num/den: truncates and saturates
TruncDiv(num, den) == IF num >= 0 THEN num \div den ELSE 0 - ((0 - num) \div den)
as_u8(num, den) == Max(0, Min(255, TruncDiv(num, den)))
Blend(a, b, t) == TruncDiv(a * (t[2] - t[1]) + b * t[1], t[2])

rgb_to_hsl(rgb) ==
    LET max == Max(rgb[1], Max(rgb[2], rgb[3]))
        min == Min(rgb[1], Min(rgb[2], rgb[3]))
        delta == max - min
        l == ((max + min) * FP) \div 510
    IN  IF delta = 0 THEN <<0, 0, l>>
        ELSE LET s == IF max + min < 255
                      THEN (delta * FP) \div (max + min)
                      ELSE (delta * FP) \div (510 - max - min)
                 h == IF max = rgb[1]
                      THEN TruncDiv(60 * HueScale * (rgb[2] - rgb[3]), delta)
                           + (IF rgb[2] < rgb[3] THEN 360 * HueScale ELSE 0)
                      ELSE IF max = rgb[2]
                      THEN TruncDiv(60 * HueScale * (rgb[3] - rgb[1]), delta) + 120 * HueScale
                      ELSE TruncDiv(60 * HueScale * (rgb[1] - rgb[2]), delta) + 240 * HueScale
             IN  <<h, s, l>>

rgb_to_oklab_simple(rgb) ==
    << (2126 * rgb[1] + 7152 * rgb[2] + 722 * rgb[3]) \div 100,
       50 * (rgb[1] - rgb[2]),
       25 * (rgb[1] + rgb[2] - 2 * rgb[3]) >>

from_rgb(rgb) ==
    [rgb |-> rgb,
     oklab |-> rgb_to_oklab_simple(rgb),
     hsl |-> rgb_to_hsl(rgb),
     hex |-> rgb[1] * 65536 + rgb[2] * 256 + rgb[3]]

to_extended(color) == from_rgb(color)

\* square of ExtendedColorData::distance_oklab, in units of 1/OkScale^2
distance_oklab(x, y) ==
    LET dl == x.oklab[1] - y.oklab[1]
        da == x.oklab[2] - y.oklab[2]
        db == x.oklab[3] - y.oklab[3]
    IN  dl * dl + da * da + db * db

\* mutant: the blue difference enters unsquared
distance_rgb_BlueUnsquared(x, y) ==
    LET dr == x.rgb[1] - y.rgb[1]
        dg == x.rgb[2] - y.rgb[2]
        db == x.rgb[3] - y.rgb[3]
    IN  dr * dr + dg * dg + db

\* square of ExtendedColorData::distance_rgb
distance_rgb(x, y) ==
    LET dr == x.rgb[1] - y.rgb[1]
        dg == x.rgb[2] - y.rgb[2]
        db == x.rgb[3] - y.rgb[3]
    IN  dr * dr + dg * dg + db * db

\* the hue term dh of ColorSimilarity::hsl_distance, in 1/HueScale degree
hsl_distance_dh(color1, color2) ==
    Min(color1.hsl[1] - color2.hsl[1],
        360 * HueScale - Abs(color1.hsl[1] - color2.hsl[1]))

\* square of ColorSimilarity::hsl_distance, in units of 1/HueScale^2 (the hue
\* term is in degrees, saturation and lightness are in [0, 1])
hsl_distance(color1, color2) ==
    LET dh == hsl_distance_dh(color1, color2)
        ds == TruncDiv((color1.hsl[2] - color2.hsl[2]) * HueScale, FP)
        dl == TruncDiv((color1.hsl[3] - color2.hsl[3]) * HueScale, FP)
        hue_weight == (color1.hsl[2] + color2.hsl[2]) \div 2
        weighted_dh == TruncDiv(dh * hue_weight, FP)
    IN  weighted_dh * weighted_dh + ds * ds + dl * dl

INFINITY == 2147483647

\* ------------------------------------------------------------------------
\* Easing and interpolation
\* ------------------------------------------------------------------------
ColorSpaces == {"Rgb", "Hsl", "Oklab", "Lab"}
EasingFunctions ==
    {"Linear", "EaseIn", "EaseOut", "EaseInOut", "CubicBezier", "Sine", "Exponential"}

\* sin(t * PI / 2) * FP for t = i/n, row n, column i + 1
SineTable ==
    << <<0, 10000>>,
       <<0, 7071, 10000>>,
       <<0, 5000, 8660, 10000>>,
       <<0, 3827, 7071, 9239, 10000>>,
       <<0, 3090, 5878, 8090, 9511, 10000>>,
       <<0, 2588, 5000, 7071, 8660, 9659, 10000>> >>

\* 2^(10 (t - 1)) * FP for t = i/n, row n, column i + 1 (column 1 is the t = 0 case)
ExponentialTable ==
    << <<0, 10000>>,
       <<0, 312, 10000>>,
       <<0, 98, 992, 10000>>,
       <<0, 55, 312, 1768, 10000>>,
       <<0, 39, 156, 625, 2500, 10000>>,
       <<0, 31, 98, 312, 992, 3150, 10000>> >>

\* t = <<i, n>> stands for i/n; the result is again a fraction
apply_easing(t, easing) ==
    LET i == t[1]
        n == t[2]
    IN  CASE easing = "Linear" -> <<i, n>>
          [] easing = "EaseIn" -> <<i * i, n * n>>
          [] easing = "EaseOut" -> <<n * n - (n - i) * (n - i), n * n>>
          [] easing = "EaseInOut" ->
                IF 2 * i < n THEN <<2 * i * i, n * n>>
                ELSE <<n * n - 2 * (n - i) * (n - i), n * n>>
          [] easing = "CubicBezier" -> <<i * i * (3 * n - 2 * i), n * n * n>>
          [] easing = "Sine" -> <<SineTable[n][i + 1], FP>>
          [] easing = "Exponential" ->
                IF i = 0 THEN <<0, FP>> ELSE <<ExponentialTable[n][i + 1], FP>>

interpolate_rgb(start, end, t) ==
    from_rgb(<< as_u8(start.rgb[1] * (t[2] - t[1]) + end.rgb[1] * t[1], t[2]),
                as_u8(start.rgb[2] * (t[2] - t[1]) + end.rgb[2] * t[1], t[2]),
                as_u8(start.rgb[3] * (t[2] - t[1]) + end.rgb[3] * t[1], t[2]) >>)

\* f32 `result + 360.0` for a negative result = num/den (in 1/HueScale degree):
\* the sum is rounded to the f32 grid, whose spacing between 256 and 512 is
\* 2^-15, so a result within 2^-16 degree of zero gives 360.0 itself
F32HalfUlpInv == 65536
add_360(num, den) ==
    IF 0 - num < den /\ (0 - num) * F32HalfUlpInv <= den * HueScale
    THEN 360 * HueScale
    ELSE 360 * HueScale + (num \div den)

\* BlockQuery::interpolate_hue; num/t[2] is start_hue + diff * t
interpolate_hue(start_hue, end_hue, t) ==
    LET raw == end_hue - start_hue
        diff == IF raw > 180 * HueScale THEN raw - 360 * HueScale
                ELSE IF raw < 0 - 180 * HueScale THEN raw + 360 * HueScale
                ELSE raw
        num == start_hue * t[2] + diff * t[1]
    IN  IF num < 0 THEN add_360(num, t[2])
        ELSE IF num >= 360 * HueScale * t[2] THEN (num \div t[2]) - 360 * HueScale
        ELSE num \div t[2]

\* ColorGradient::interpolate_hue, the copy in color/palettes.rs
ColorGradient_interpolate_hue(start_hue, end_hue, t) ==
    LET raw == end_hue - start_hue
        diff == IF raw > 180 * HueScale THEN raw - 360 * HueScale
                ELSE IF raw < 0 - 180 * HueScale THEN raw + 360 * HueScale
                ELSE raw
        num == start_hue * t[2] + diff * t[1]
    IN  IF num < 0 THEN add_360(num, t[2])
        ELSE IF num >= 360 * HueScale * t[2] THEN (num \div t[2]) - 360 * HueScale
        ELSE num \div t[2]

hsl_to_rgb(h, s, l) ==
    LET c == ((FP - Abs(2 * l - FP)) * s) \div FP
        x == (c * (60 * HueScale - Abs((h % (120 * HueScale)) - 60 * HueScale)))
                 \div (60 * HueScale)
        m == l - c \div 2
        rgb1 == IF h < 60 * HueScale THEN <<c, x, 0>>
                ELSE IF h < 120 * HueScale THEN <<x, c, 0>>
                ELSE IF h < 180 * HueScale THEN <<0, c, x>>
                ELSE IF h < 240 * HueScale THEN <<0, x, c>>
                ELSE IF h < 300 * HueScale THEN <<x, 0, c>>
                ELSE <<c, 0, x>>
    IN  << as_u8((rgb1[1] + m) * 255, FP),
           as_u8((rgb1[2] + m) * 255, FP),
           as_u8((rgb1[3] + m) * 255, FP) >>

interpolate_hsl(start, end, t) ==
    LET h == interpolate_hue(start.hsl[1], end.hsl[1], t)
        s == Blend(start.hsl[2], end.hsl[2], t)
        l == Blend(start.hsl[3], end.hsl[3], t)
    IN  from_rgb(hsl_to_rgb(h, s, l))

oklab_to_rgb(oklab) ==
    LET l == Min(Max(oklab[1], 0), OkScale)
        a == oklab[2]
        b == oklab[3]
        r == Min(Max(l + TruncDiv(3963 * a, 10000) + TruncDiv(2158 * b, 10000), 0), OkScale)
        g == Min(Max(l - TruncDiv(1056 * a, 10000) - TruncDiv(639 * b, 10000), 0), OkScale)
        b_val == Min(Max(l - TruncDiv(895 * a, 10000) - TruncDiv(12915 * b, 10000), 0), OkScale)
    IN  << as_u8(r * 255, OkScale), as_u8(g * 255, OkScale), as_u8(b_val * 255, OkScale) >>

interpolate_oklab(start, end, t) ==
    from_rgb(oklab_to_rgb(<< Blend(start.oklab[1], end.oklab[1], t),
                             Blend(start.oklab[2], end.oklab[2], t),
                             Blend(start.oklab[3], end.oklab[3], t) >>))

\* The Lab blend goes through the palette crate's sRGB -> Lab conversion,
\* which is outside the repository: its outcome lab_rgb is an input.
interpolate_lab(start, end, t, lab_rgb) == from_rgb(lab_rgb)

interpolate_color(start, end, t, color_space, lab_rgb) ==
    CASE color_space = "Rgb" -> interpolate_rgb(start, end, t)
      [] color_space = "Hsl" -> interpolate_hsl(start, end, t)
      [] color_space = "Oklab" -> interpolate_oklab(start, end, t)
      [] color_space = "Lab" -> interpolate_lab(start, end, t, lab_rgb)

\* ------------------------------------------------------------------------
\* Argument domains of the modelled calls
\* ------------------------------------------------------------------------
NumUniverse == Len(Universe)

RED == <<255, 0, 0>>
BLUE == <<0, 0, 255>>
GREY == <<128, 128, 128>>
Colours == {RED, BLUE, GREY}
EndpointPairs == {<<RED, BLUE>>, <<RED, RED>>, <<BLUE, RED>>}
LabOutcomes == {RED, GREY}
Tolerances == {0, 8000}
SamplingMethods == {"Dominant", "EdgeWeighted"}
Patterns ==
    {<<"s","t","o","n","e">>,
     <<"*","S","A","N","D">>,
     <<"m","i","n","e","c","r","a","f","t",":","s","*">>,
     <<"*","e","*","o","*">>,
     <<"n","o","n","e","x","i","s","t","e","n","t",":","i","m","p","o","s","s","i","b","l","e","_","b","l","o","c","k">>,
     <<"*">>}
PropertyNames == {"facing", "type"}
PropertyValues == {<<"facing", "north">>, <<"type", "double">>, <<"type", "single">>}
FamilyLists == {<<Literals.slab>>, <<Literals.stone, ID.missing>>, <<<<"S", "l", "a", "b">>, Literals.stone>>}
BlockIdPairs == {<<ID.stone, ID.red_sand>>, <<ID.stone, ID.chest>>, <<ID.missing, ID.stone>>}

GradientConfig(steps, color_space, sampling_method, easing) ==
    [steps |-> steps, color_space |-> color_space,
     sampling_method |-> sampling_method, easing |-> easing]

\* every step count, colour space and easing with the default sampling method, and
\* every step count with the other sampling method
Configs ==
    {GradientConfig(s, c, "Dominant", e) :
        s \in 0..MaxSteps, c \in ColorSpaces, e \in EasingFunctions}
    \cup {GradientConfig(s, "Oklab", m, "Linear") : s \in 0..MaxSteps, m \in SamplingMethods}

\* outcomes of the Lab interpolations of one call: one per interpolated colour
LabChoices(config, fromSteps) ==
    IF config.color_space = "Lab" /\ config.steps >= fromSteps
    THEN [1..config.steps -> LabOutcomes]
    ELSE {<<>>}

LabAt(lab, i) == IF i \in DOMAIN lab THEN lab[i] ELSE <<0, 0, 0>>

\* catalogs: the blocks of Universe that the build put into the static map
RECURSIVE Increasing(_)
Increasing(s) == Len(s) <= 1 \/ (s[1] < s[2] /\ Increasing(Tail(s)))

Catalogs ==
    UNION {{s \in [1..n -> 1..MaxQueryBlock] : Increasing(s)} : n \in 0..MaxCatalog}

\* ------------------------------------------------------------------------
\* State
\* ------------------------------------------------------------------------
VARIABLES
    BLOCKS,   \* the static catalog, in iteration order
    blocks,   \* BlockQuery.blocks of the query the caller holds
    pc,       \* "start": no query yet; "ready": the caller holds a query;
              \* "returned": a call has just returned to a caller holding a query;
              \* "returned_start": a call has returned to a caller without query
    prev,     \* the receiver of the call that has just returned
    op,       \* the call that has just returned: [name, args]
    found     \* the value returned by a call that returns no query: the
              \* Option<&BlockFacts> of a resolver, a distance, a hue, a palette

vars == <<BLOCKS, blocks, pc, prev, op, found>>

NoOp == [name |-> "none", args |-> <<>>]
Call(name, args) == [name |-> name, args |-> args]

HasColor(block) == IsSome(Universe[block].color)

\* block.extras.color.unwrap().to_extended(), tabulated per block
ExtendedColors ==
    [block \in 1..NumUniverse |->
        IF IsSome(Universe[block].color) THEN to_extended(Unwrap(Universe[block].color))
        ELSE None]
color_of(block) == ExtendedColors[block]

\* ------------------------------------------------------------------------
\* Vec methods
\* ------------------------------------------------------------------------
retain(v, keep(_)) == SelectSeq(v, keep)

truncate(v, len) == IF len < Len(v) THEN SubSeq(v, 1, len) ELSE v

remove(v, index) == SubSeq(v, 1, index) \o SubSeq(v, index + 2, Len(v))

\* slice::sort_by with a comparator that is a total preorder: the stable sort
sort_by(v, less(_, _)) ==
    LET n == Len(v)
        rank(i) == Cardinality({j \in 1..n : less(v[j], v[i])
                                             \/ (j < i /\ ~less(v[i], v[j]))}) + 1
    IN  [p \in 1..n |-> v[CHOOSE i \in 1..n : rank(i) = p]]

\* ------------------------------------------------------------------------
\* BlockQuery: filters, limit, sorts
\* ------------------------------------------------------------------------
AllBlocks_new == BLOCKS

only_solid(self) == retain(self, is_solid_block)

exclude_tile_entities(self) == retain(self, LAMBDA block : ~is_tile_entity(block))

exclude_falling(self) == retain(self, LAMBDA block : ~is_falling_block(block))

exclude_transparent(self) == retain(self, LAMBDA block : ~is_transparent(block))

exclude_light_sources(self) == retain(self, LAMBDA block : ~is_light_source(block))

exclude_needs_support(self) == retain(self, LAMBDA block : ~needs_support(block))

survival_only(self) == retain(self, is_survival_obtainable)

\* mutant: removes while iterating by index and skips the block after each removed one
with_color_SkipAfterRemove(self) ==
    LET scan[i \in 1..(Len(self) + 2)] ==
            IF i > Len(self) THEN <<>>
            ELSE IF HasColor(self[i]) THEN <<self[i]>> \o scan[i + 1]
            ELSE (IF i < Len(self) THEN <<self[i + 1]>> ELSE <<>>) \o scan[i + 2]
    IN  scan[1]

with_color(self) == retain(self, HasColor)

with_property(self, property) == retain(self, LAMBDA block : has_property(block, property))

\* the closures handed to retain by the filters that take arguments
keep_with_property_value(block, property, value) ==
    \/ get_property(block, property) = Some(value)
    \/ LET values == get_property_values(block, property)
       IN  IF IsSome(values) THEN value \in Range(Unwrap(values)) ELSE FALSE

keep_matching(block, pattern) ==
    LET lid == to_lowercase(id(block))
    IN  IF contains(pattern, <<"*">>)
        THEN matches_pattern(lid, pattern)
        ELSE contains(lid, pattern)

keep_from_families(block, family_set) ==
    to_lowercase(get_block_family(block)) \in family_set

\* tolerance is in units of 1/OkScale and non-negative (caller contract)
keep_similar_to_color(block, target_color, tolerance) ==
    IF HasColor(block)
    THEN distance_oklab(color_of(block), target_color) <= tolerance * tolerance
    ELSE FALSE

with_property_value(self, property, value) ==
    retain(self, LAMBDA block : keep_with_property_value(block, property, value))

\* mutant: stops at the first matching block
matching_FirstMatchOnly(self, pattern) ==
    LET lpattern == to_lowercase(pattern)
        kept == SelectSeq(self, LAMBDA block : keep_matching(block, lpattern))
    IN  IF kept = <<>> THEN <<>> ELSE <<kept[1]>>

matching(self, pattern) ==
    LET lpattern == to_lowercase(pattern)
    IN  retain(self, LAMBDA block : keep_matching(block, lpattern))

from_families(self, families) ==
    LET family_set == {to_lowercase(families[i]) : i \in DOMAIN families}
    IN  retain(self, LAMBDA block : keep_from_families(block, family_set))

exclude_families(self, families) ==
    LET family_set == {to_lowercase(families[i]) : i \in DOMAIN families}
    IN  retain(self, LAMBDA block : ~keep_from_families(block, family_set))

similar_to_color(self, target_color, tolerance) ==
    retain(self, LAMBDA block : keep_similar_to_color(block, target_color, tolerance))

limit(self, count) == truncate(self, count)

sort_by_name(self) == sort_by(self, LAMBDA a, b : str_less(id(a), id(b)))

\* mutant: blocks without colour are dropped before sorting
sort_by_color_similarity_DropUncoloured(self, reference) ==
    sort_by(SelectSeq(self, HasColor),
            LAMBDA a, b : distance_oklab(color_of(a), reference)
                              < distance_oklab(color_of(b), reference))

sort_by_color_similarity(self, reference) ==
    LET dist(block) == IF HasColor(block)
                       THEN distance_oklab(color_of(block), reference)
                       ELSE INFINITY
    IN  sort_by(self, LAMBDA a, b : dist(a) < dist(b))

\* the inner loop of sort_by_color_gradient: index of the closest remaining colour
RECURSIVE ClosestRemaining(_, _, _, _, _)
ClosestRemaining(colored_blocks, current_color, i, best_index, best_distance) ==
    IF i >= Len(colored_blocks) THEN best_index
    ELSE LET distance == distance_oklab(color_of(colored_blocks[i + 1]), current_color)
         IN  IF distance < best_distance
             THEN ClosestRemaining(colored_blocks, current_color, i + 1, i, distance)
             ELSE ClosestRemaining(colored_blocks, current_color, i + 1, best_index, best_distance)

RECURSIVE ColorChain(_, _)
ColorChain(result, colored_blocks) ==
    IF colored_blocks = <<>> THEN result
    ELSE LET current_color == color_of(result[Len(result)])
             best_index == ClosestRemaining(colored_blocks, current_color, 0, 0, INFINITY)
         IN  ColorChain(Append(result, colored_blocks[best_index + 1]),
                        remove(colored_blocks, best_index))

sort_by_color_gradient(self) ==
    IF Len(self) <= 1 THEN self
    ELSE LET colored_blocks == SelectSeq(self, HasColor)
         IN  IF Len(colored_blocks) <= 1 THEN colored_blocks
             ELSE ColorChain(<<colored_blocks[1]>>, remove(colored_blocks, 0))

\* ------------------------------------------------------------------------
\* Nearest-match resolution and gradient generation
\* ------------------------------------------------------------------------
\* mutant: the scan replaces the best block on an equal distance
RECURSIVE ClosestScan_LastOnTie(_, _, _, _)
ClosestScan_LastOnTie(target_color, i, best_block, best_distance) ==
    IF i > Len(BLOCKS) THEN best_block
    ELSE IF HasColor(BLOCKS[i])
         THEN LET distance == distance_oklab(color_of(BLOCKS[i]), target_color)
              IN  IF distance <= best_distance
                  THEN ClosestScan_LastOnTie(target_color, i + 1, Some(BLOCKS[i]), distance)
                  ELSE ClosestScan_LastOnTie(target_color, i + 1, best_block, best_distance)
         ELSE ClosestScan_LastOnTie(target_color, i + 1, best_block, best_distance)

\* the scan `for block in BLOCKS.values()` shared by both resolvers
RECURSIVE ClosestScan(_, _, _, _)
ClosestScan(target_color, i, best_block, best_distance) ==
    IF i > Len(BLOCKS) THEN best_block
    ELSE IF HasColor(BLOCKS[i])
         THEN LET distance == distance_oklab(color_of(BLOCKS[i]), target_color)
              IN  IF distance < best_distance
                  THEN ClosestScan(target_color, i + 1, Some(BLOCKS[i]), distance)
                  ELSE ClosestScan(target_color, i + 1, best_block, best_distance)
         ELSE ClosestScan(target_color, i + 1, best_block, best_distance)

find_closest_color_block(target_color) == ClosestScan(target_color, 1, None, INFINITY)

find_closest_block_to_color(target_color) == ClosestScan(target_color, 1, None, INFINITY)

\* BLOCKS.get(id)
get(block_id) ==
    IF \E i \in DOMAIN BLOCKS : id(BLOCKS[i]) = block_id
    THEN Some(BLOCKS[CHOOSE i \in DOMAIN BLOCKS : id(BLOCKS[i]) = block_id])
    ELSE None

create_gradient_colors(start_color, end_color, config, lab) ==
    [k \in 1..config.steps |->
        LET t == IF config.steps = 1 THEN <<0, 1>> ELSE <<k - 1, config.steps - 1>>
            eased_t == apply_easing(t, config.easing)
        IN  interpolate_color(start_color, end_color, eased_t, config.color_space,
                              LabAt(lab, k))]

skip(v, n) == IF Len(v) <= n THEN <<>> ELSE SubSeq(v, n + 1, Len(v))

RECURSIVE MultiSegments(_, _, _, _, _, _)
MultiSegments(colors, config, lab, segment_steps, i, result) ==
    IF i >= Len(colors) - 1 THEN result
    ELSE LET segment_lab == [k \in 1..segment_steps |-> LabAt(lab, i * segment_steps + k)]
             segment_gradient ==
                 create_gradient_colors(colors[i + 1], colors[i + 2],
                                        [config EXCEPT !.steps = segment_steps], segment_lab)
         IN  MultiSegments(colors, config, lab, segment_steps, i + 1,
                           IF i > 0 THEN result \o skip(segment_gradient, 1)
                           ELSE result \o segment_gradient)

\* mutant: every segment gets all of config.steps
create_multi_gradient_colors_FullSegments(colors, config, lab) ==
    IF colors = <<>> THEN <<>>
    ELSE IF Len(colors) = 1 THEN [k \in 1..config.steps |-> colors[1]]
    ELSE MultiSegments(colors, config, lab, config.steps, 0, <<>>)

create_multi_gradient_colors(colors, config, lab) ==
    IF colors = <<>> THEN <<>>
    ELSE IF Len(colors) = 1 THEN [k \in 1..config.steps |-> colors[1]]
    ELSE MultiSegments(colors, config, lab, config.steps \div (Len(colors) - 1), 0, <<>>)

\* mutant: the scan runs over every known block instead of the catalog
Candidates_AnyKnownBlock(target_color, used_blocks) ==
    LET known == [u \in 1..NumUniverse |-> u]
        eligible == SelectSeq(known, LAMBDA block :
                                 HasColor(block) /\ id(block) \notin used_blocks)
    IN  [k \in 1..Len(eligible) |->
            <<eligible[k], distance_oklab(color_of(eligible[k]), target_color)>>]

\* mutant: the used-block check is missing
Candidates_IgnoreUsed(target_color, used_blocks) ==
    LET eligible == SelectSeq(BLOCKS, HasColor)
    IN  [k \in 1..Len(eligible) |->
            <<eligible[k], distance_oklab(color_of(eligible[k]), target_color)>>]

\* candidates of one step: every coloured catalog block whose id is unused
Candidates(target_color, used_blocks) ==
    LET eligible == SelectSeq(BLOCKS, LAMBDA block :
                                 HasColor(block) /\ id(block) \notin used_blocks)
    IN  [k \in 1..Len(eligible) |->
            <<eligible[k], distance_oklab(color_of(eligible[k]), target_color)>>]

RECURSIVE ResolveUnique(_, _, _, _)
ResolveUnique(colors, k, gradient_blocks, used_blocks) ==
    IF k > Len(colors) THEN gradient_blocks
    ELSE LET candidates == sort_by(Candidates(colors[k], used_blocks),
                                   LAMBDA a, b : a[2] < b[2])
         IN  IF candidates # <<>>
             THEN ResolveUnique(colors, k + 1, Append(gradient_blocks, candidates[1][1]),
                                used_blocks \cup {id(candidates[1][1])})
             ELSE ResolveUnique(colors, k + 1, gradient_blocks, used_blocks)

\* mutant: the interpolation loop stops one step early
GradientTargets_DropLast(start_color, end_color, config, lab) ==
    IF config.steps = 1 THEN <<start_color>>
    ELSE IF config.steps = 2 THEN <<start_color, end_color>>
    ELSE [k \in 1..(config.steps - 1) |->
             LET t == <<k - 1, config.steps - 1>>
                 eased_t == apply_easing(t, config.easing)
             IN  interpolate_color(start_color, end_color, eased_t, config.color_space,
                                   LabAt(lab, k))]

\* mutant: one and two steps are interpolated like any other step count
GradientTargets_AlwaysInterpolate(start_color, end_color, config, lab) ==
    [k \in 1..config.steps |->
        LET t == IF config.steps = 1 THEN <<0, 1>> ELSE <<k - 1, config.steps - 1>>
            eased_t == apply_easing(t, config.easing)
        IN  interpolate_color(start_color, end_color, eased_t, config.color_space,
                              LabAt(lab, k))]

\* the target colours of generate_gradient_between_colors_static
GradientTargets(start_color, end_color, config, lab) ==
    IF config.steps = 1 THEN <<start_color>>
    ELSE IF config.steps = 2 THEN <<start_color, end_color>>
    ELSE [k \in 1..config.steps |->
             LET t == <<k - 1, config.steps - 1>>
                 eased_t == apply_easing(t, config.easing)
             IN  interpolate_color(start_color, end_color, eased_t, config.color_space,
                                   LabAt(lab, k))]

generate_gradient_between_colors_static(start_color, end_color, config, lab) ==
    ResolveUnique(GradientTargets(start_color, end_color, config, lab), 1, <<>>, {})

generate_gradient(self, config, lab) ==
    LET colored_blocks == SelectSeq(self, HasColor)
    IN  IF Len(colored_blocks) < 2 THEN colored_blocks
        ELSE generate_gradient_between_colors_static(
                 color_of(colored_blocks[1]),
                 color_of(colored_blocks[Len(colored_blocks)]), config, lab)

generate_gradient_between_blocks(start_block_id, end_block_id, config, lab) ==
    LET start_block == get(start_block_id)
        end_block == get(end_block_id)
    IN  IF IsSome(start_block) /\ IsSome(end_block)
        THEN IF HasColor(Unwrap(start_block)) /\ HasColor(Unwrap(end_block))
             THEN generate_gradient_between_colors_static(
                      color_of(Unwrap(start_block)), color_of(Unwrap(end_block)), config, lab)
             ELSE <<>>
        ELSE <<>>

\* mutant: only blocks of the working set are returned
generate_gradient_between_colors_FromWorkingSet(self, start_color, end_color, config, lab) ==
    SelectSeq(generate_gradient_between_colors_static(start_color, end_color, config, lab),
              LAMBDA block : block \in Range(self))

generate_gradient_between_colors(self, start_color, end_color, config, lab) ==
    generate_gradient_between_colors_static(start_color, end_color, config, lab)

RECURSIVE ResolveEach(_, _, _)
ResolveEach(gradient_colors, k, gradient_blocks) ==
    IF k > Len(gradient_colors) THEN gradient_blocks
    ELSE LET best_block == ClosestScan(gradient_colors[k], 1, None, INFINITY)
         IN  IF IsSome(best_block)
             THEN ResolveEach(gradient_colors, k + 1, Append(gradient_blocks, Unwrap(best_block)))
             ELSE ResolveEach(gradient_colors, k + 1, gradient_blocks)

generate_multi_gradient(self, config, lab) ==
    LET colored_blocks == SelectSeq(self, HasColor)
    IN  IF colored_blocks = <<>> THEN <<>>
        ELSE IF Len(colored_blocks) = 1
             THEN [k \in 1..Min(config.steps, 1) |-> colored_blocks[1]]
        ELSE LET colors == [k \in 1..Len(colored_blocks) |-> color_of(colored_blocks[k])]
             IN  ResolveEach(create_multi_gradient_colors(colors, config, lab), 1, <<>>)

\* ------------------------------------------------------------------------
\* Transitions: one per call of the API; Chain hands the returned query to
\* the next call of the chain
\* ------------------------------------------------------------------------
Init ==
    /\ BLOCKS \in Catalogs
    /\ blocks = <<>>
    /\ pc = "start"
    /\ prev = <<>>
    /\ op = NoOp
    /\ found = None

\* a method taking self by value returns the query `result`
Returns(name, args, result) ==
    /\ blocks' = result
    /\ prev' = blocks
    /\ op' = Call(name, args)
    /\ pc' = "returned"
    /\ UNCHANGED <<BLOCKS, found>>

\* an associated function without receiver returns the query `result`
ReturnsNew(name, args, result) ==
    /\ blocks' = result
    /\ prev' = <<>>
    /\ op' = Call(name, args)
    /\ pc' = "returned"
    /\ UNCHANGED <<BLOCKS, found>>

AllBlocksNew ==
    /\ pc \in {"start", "ready"}
    /\ ReturnsNew("new", <<>>, AllBlocks_new)

OnlySolid ==
    /\ pc = "ready"
    /\ Returns("only_solid", <<>>, only_solid(blocks))

ExcludeTileEntities ==
    /\ pc = "ready"
    /\ Returns("exclude_tile_entities", <<>>, exclude_tile_entities(blocks))

ExcludeFalling ==
    /\ pc = "ready"
    /\ Returns("exclude_falling", <<>>, exclude_falling(blocks))

ExcludeTransparent ==
    /\ pc = "ready"
    /\ Returns("exclude_transparent", <<>>, exclude_transparent(blocks))

ExcludeLightSources ==
    /\ pc = "ready"
    /\ Returns("exclude_light_sources", <<>>, exclude_light_sources(blocks))

ExcludeNeedsSupport ==
    /\ pc = "ready"
    /\ Returns("exclude_needs_support", <<>>, exclude_needs_support(blocks))

SurvivalOnly ==
    /\ pc = "ready"
    /\ Returns("survival_only", <<>>, survival_only(blocks))

WithColor ==
    /\ pc = "ready"
    /\ Returns("with_color", <<>>, with_color(blocks))

WithProperty ==
    /\ pc = "ready"
    /\ \E property \in PropertyNames :
           Returns("with_property", <<property>>, with_property(blocks, property))

WithPropertyValue ==
    /\ pc = "ready"
    /\ \E pv \in PropertyValues :
           Returns("with_property_value", pv, with_property_value(blocks, pv[1], pv[2]))

Matching ==
    /\ pc = "ready"
    /\ \E pattern \in Patterns : Returns("matching", <<pattern>>, matching(blocks, pattern))

FromFamilies ==
    /\ pc = "ready"
    /\ \E families \in FamilyLists :
           Returns("from_families", <<families>>, from_families(blocks, families))

ExcludeFamilies ==
    /\ pc = "ready"
    /\ \E families \in FamilyLists :
           Returns("exclude_families", <<families>>, exclude_families(blocks, families))

SimilarToColor ==
    /\ pc = "ready"
    /\ \E target \in Colours, tolerance \in Tolerances :
           Returns("similar_to_color", <<target, tolerance>>,
                   similar_to_color(blocks, from_rgb(target), tolerance))

Limit ==
    /\ pc = "ready"
    /\ \E count \in 0..MaxLimit : Returns("limit", <<count>>, limit(blocks, count))

SortByName ==
    /\ pc = "ready"
    /\ Returns("sort_by_name", <<>>, sort_by_name(blocks))

SortByColorSimilarity ==
    /\ pc = "ready"
    /\ \E reference \in Colours :
           Returns("sort_by_color_similarity", <<reference>>,
                   sort_by_color_similarity(blocks, from_rgb(reference)))

SortByColorGradient ==
    /\ pc = "ready"
    /\ Returns("sort_by_color_gradient", <<>>, sort_by_color_gradient(blocks))

GenerateGradient ==
    /\ pc = "ready"
    /\ \E config \in Configs :
           \E lab \in LabChoices(config, 3) :
               Returns("generate_gradient", <<config, lab>>,
                       generate_gradient(blocks, config, lab))

GenerateGradientBetweenBlocks ==
    /\ pc \in {"start", "ready"}
    /\ \E ids \in BlockIdPairs, config \in Configs :
           \E lab \in LabChoices(config, 3) :
               ReturnsNew("generate_gradient_between_blocks", <<ids[1], ids[2], config, lab>>,
                          generate_gradient_between_blocks(ids[1], ids[2], config, lab))

GenerateGradientBetweenColors ==
    /\ pc = "ready"
    /\ \E ends \in EndpointPairs, config \in Configs :
           \E lab \in LabChoices(config, 3) :
               Returns("generate_gradient_between_colors", <<ends[1], ends[2], config, lab>>,
                       generate_gradient_between_colors(blocks, from_rgb(ends[1]),
                                                        from_rgb(ends[2]), config, lab))

GenerateMultiGradient ==
    /\ pc = "ready"
    /\ \E config \in Configs :
           \E lab \in LabChoices(config, 1) :
               Returns("generate_multi_gradient", <<config, lab>>,
                       generate_multi_gradient(blocks, config, lab))

\* &self resolver of BlockQuery: the query is only borrowed
FindClosestColorBlock ==
    /\ pc = "ready"
    /\ \E target \in Colours :
        /\ found' = find_closest_color_block(from_rgb(target))
        /\ prev' = blocks
        /\ op' = Call("find_closest_color_block", <<target>>)
        /\ pc' = "returned"
        /\ UNCHANGED <<BLOCKS, blocks>>

\* resolver of BlockPaletteGenerator: no query involved
FindClosestBlockToColor ==
    /\ pc \in {"start", "ready"}
    /\ \E target \in Colours :
        /\ found' = find_closest_block_to_color(from_rgb(target))
        /\ prev' = blocks
        /\ op' = Call("find_closest_block_to_color", <<target>>)
        /\ pc' = IF pc = "start" THEN "returned_start" ELSE "returned"
        /\ UNCHANGED <<BLOCKS, blocks>>

\* the caller goes on with the value it holds
Chain ==
    /\ pc \in {"returned", "returned_start"}
    /\ pc' = IF pc = "returned" THEN "ready" ELSE "start"
    /\ prev' = <<>>
    /\ op' = NoOp
    /\ found' = None
    /\ UNCHANGED <<BLOCKS, blocks>>

Next ==
    \/ AllBlocksNew
    \/ OnlySolid
    \/ ExcludeTileEntities
    \/ ExcludeFalling
    \/ ExcludeTransparent
    \/ ExcludeLightSources
    \/ ExcludeNeedsSupport
    \/ SurvivalOnly
    \/ WithColor
    \/ WithProperty
    \/ WithPropertyValue
    \/ Matching
    \/ FromFamilies
    \/ ExcludeFamilies
    \/ SimilarToColor
    \/ Limit
    \/ SortByName
    \/ SortByColorSimilarity
    \/ SortByColorGradient
    \/ GenerateGradient
    \/ GenerateGradientBetweenBlocks
    \/ GenerateGradientBetweenColors
    \/ GenerateMultiGradient
    \/ FindClosestColorBlock
    \/ FindClosestBlockToColor
    \/ Chain

Spec == Init /\ [][Next]_vars

\* ------------------------------------------------------------------------
\* Properties
\* ------------------------------------------------------------------------
Returned == pc \in {"returned", "returned_start"}

StaticGradientCalls ==
    {"generate_gradient", "generate_gradient_between_colors",
     "generate_gradient_between_blocks"}

\* the GradientConfig and the Lab outcomes of the gradient call that returned
ConfigOf(call) == call.args[Len(call.args) - 1]
LabOf(call) == call.args[Len(call.args)]

ColoredCatalog == SelectSeq(BLOCKS, HasColor)

\* C1: after any sequence of BlockQuery operations every element of the
\* working set is an entry of the catalog BLOCKS, and no operation changes
\* the catalog.
C1_WorkingSetWithinCatalog ==
    /\ [](Range(blocks) \subseteq Range(BLOCKS))
    /\ [][BLOCKS' = BLOCKS]_vars

\* a gradient built from the query's own colours has returned blocks of a
\* catalog that holds only part of the known blocks
C1_Witness ==
    /\ Returned
    /\ op.name = "generate_multi_gradient"
    /\ Len(blocks) >= 2
    /\ Len(BLOCKS) < NumUniverse
    /\ Range(blocks) \subseteq Range(BLOCKS)

\* C2: every operation applied to an empty working set returns an empty
\* working set; in particular the gradient generators do.
C2_EmptyStaysEmpty ==
    (pc = "returned" /\ op.name \notin {"new", "generate_gradient_between_blocks"}
        /\ prev = <<>>)
    => blocks = <<>>

\* C3: in the result of one call of generate_gradient,
\* generate_gradient_between_colors or generate_gradient_between_blocks no
\* block identifier appears more than once.
C3_GradientUnique ==
    (Returned /\ op.name \in StaticGradientCalls)
    => \A i, j \in DOMAIN blocks : id(blocks[i]) = id(blocks[j]) => i = j

\* both targets of a two-step gradient are the same colour, and two
\* different blocks were returned
C3_Witness ==
    /\ Returned
    /\ op.name = "generate_gradient_between_colors"
    /\ op.args[1] = op.args[2]
    /\ ConfigOf(op).steps = 2
    /\ Len(blocks) = 2
    /\ blocks[1] # blocks[2]

\* C4: generate_gradient_between_colors returns exactly
\* min(config.steps, number of coloured catalog entries) blocks, and so does
\* generate_gradient when its working set has at least two coloured members.
C4_GradientLength ==
    (Returned
        /\ \/ op.name = "generate_gradient_between_colors"
           \/ (op.name = "generate_gradient" /\ Len(SelectSeq(prev, HasColor)) >= 2))
    => Len(blocks) = Min(ConfigOf(op).steps, Len(ColoredCatalog))

\* a three-step gradient over a catalog with only two coloured blocks
C4_Witness ==
    /\ Returned
    /\ op.name = "generate_gradient"
    /\ Len(SelectSeq(prev, HasColor)) >= 2
    /\ ConfigOf(op).steps = 3
    /\ Len(ColoredCatalog) = 2
    /\ Len(blocks) = 2

\* C5: with config.steps = 0 each of generate_gradient,
\* generate_gradient_between_colors and generate_multi_gradient returns an
\* empty working set, whatever the input working set.
C5_ZeroStepsEmpty ==
    (Returned
        /\ op.name \in {"generate_gradient", "generate_gradient_between_colors",
                        "generate_multi_gradient"}
        /\ ConfigOf(op).steps = 0)
    => blocks = <<>>

\* the coloured catalog positions whose block id has not been used
Eligible(used_blocks) ==
    {i \in DOMAIN BLOCKS : HasColor(BLOCKS[i]) /\ id(BLOCKS[i]) \notin used_blocks}

\* catalog position i holds the nearest eligible block for target_color, the
\* first one in catalog order among those at the minimal distance
IsNearest(i, target_color, used_blocks) ==
    /\ i \in Eligible(used_blocks)
    /\ \A j \in Eligible(used_blocks) :
           LET di == distance_oklab(color_of(BLOCKS[i]), target_color)
               dj == distance_oklab(color_of(BLOCKS[j]), target_color)
           IN  di < dj \/ (di = dj /\ i <= j)

\* `block` is the nearest eligible catalog block for target_color
IsNearestBlock(block, target_color, used_blocks) ==
    \E i \in DOMAIN BLOCKS : BLOCKS[i] = block /\ IsNearest(i, target_color, used_blocks)

\* the ids of the first k blocks of v
IdsBefore(v, k) == {id(v[j]) : j \in 1..(k - 1)}

\* C6 as stated: with steps = 1 generate_gradient_between_colors returns
\* [resolve(start)] and with steps = 2 it returns [resolve(start), resolve(end)],
\* each endpoint resolved on its own by the nearest-match scan.
C6_Original ==
    (Returned /\ op.name = "generate_gradient_between_colors"
        /\ ConfigOf(op).steps \in {1, 2})
    => blocks = IF ConfigOf(op).steps = 1
                THEN find_closest_color_block(from_rgb(op.args[1]))
                ELSE find_closest_color_block(from_rgb(op.args[1]))
                         \o find_closest_color_block(from_rgb(op.args[2]))

\* C6: with steps = 1 generate_gradient_between_colors returns the nearest
\* match for the start colour alone; with steps = 2 it returns the nearest
\* match for the start colour followed by the nearest match for the end colour
\* among the coloured catalog blocks other than the first result (one block
\* when the catalog has a single coloured block, none when it has none); the
\* result is the same for every easing function and colour space.
C6_EndpointsResolved ==
    (Returned /\ op.name = "generate_gradient_between_colors"
        /\ ConfigOf(op).steps \in {1, 2})
    => /\ Len(blocks) = Min(ConfigOf(op).steps, Len(ColoredCatalog))
       /\ Len(blocks) >= 1 => IsNearestBlock(blocks[1], from_rgb(op.args[1]), {})
       /\ Len(blocks) = 2
              => IsNearestBlock(blocks[2], from_rgb(op.args[2]), {id(blocks[1])})

\* a two-step gradient whose end colour resolves, on its own, to the block
\* already returned for the start colour
C6_Witness ==
    /\ Returned
    /\ op.name = "generate_gradient_between_colors"
    /\ ConfigOf(op).steps = 2
    /\ ConfigOf(op).easing # "Linear"
    /\ Len(blocks) = 2
    /\ find_closest_color_block(from_rgb(op.args[2])) = Some(blocks[1])

\* C7: nearest-match resolution returns a coloured catalog block at minimal
\* Oklab distance from the target among the eligible blocks, the first such
\* block in catalog order, and nothing exactly when no eligible block has a
\* colour; this holds for find_closest_color_block, for
\* find_closest_block_to_color and for each step of
\* generate_gradient_between_colors, where the eligible blocks are those not
\* returned at an earlier step.
C7_NearestMatch ==
    /\ (Returned /\ op.name \in {"find_closest_color_block", "find_closest_block_to_color"})
       => IF Eligible({}) = {} THEN found = None
          ELSE /\ IsSome(found)
               /\ IsNearestBlock(Unwrap(found), from_rgb(op.args[1]), {})
    /\ (Returned /\ op.name = "generate_gradient_between_colors")
       => LET targets == GradientTargets(from_rgb(op.args[1]), from_rgb(op.args[2]),
                                         ConfigOf(op), LabOf(op))
          IN  /\ Len(blocks) <= Len(targets)
              /\ \A k \in DOMAIN blocks :
                     IsNearestBlock(blocks[k], targets[k], IdsBefore(blocks, k))
              /\ Len(blocks) < Len(targets)
                     => Eligible(IdsBefore(blocks, Len(blocks) + 1)) = {}

\* two catalog blocks of the same colour are both nearest to the target, and
\* the resolver returned the one that comes first in the catalog
C7_Witness ==
    /\ Returned
    /\ op.name = "find_closest_block_to_color"
    /\ found # None
    /\ \E i, j \in Eligible({}) :
           /\ i < j
           /\ BLOCKS[i] = Unwrap(found)
           /\ distance_oklab(color_of(BLOCKS[i]), from_rgb(op.args[1]))
                  = distance_oklab(color_of(BLOCKS[j]), from_rgb(op.args[1]))

\* ------------------------------------------------------------------------
\* Filters and sorts as calls
\* ------------------------------------------------------------------------
NullaryFilters ==
    {"only_solid", "exclude_tile_entities", "exclude_falling", "exclude_transparent",
     "exclude_light_sources", "exclude_needs_support", "survival_only", "with_color"}

\* every filter call the model makes
FilterCalls ==
    {Call(name, <<>>) : name \in NullaryFilters}
    \cup {Call("with_property", <<property>>) : property \in PropertyNames}
    \cup {Call("with_property_value", pv) : pv \in PropertyValues}
    \cup {Call("matching", <<pattern>>) : pattern \in Patterns}
    \cup {Call("from_families", <<families>>) : families \in FamilyLists}
    \cup {Call("exclude_families", <<families>>) : families \in FamilyLists}
    \cup {Call("similar_to_color", <<target, tolerance>>) :
              target \in Colours, tolerance \in Tolerances}

FilterNames == {call.name : call \in FilterCalls}

\* the working set the filter call returns for the receiver v
ApplyFilter(call, v) ==
    CASE call.name = "only_solid" -> only_solid(v)
      [] call.name = "exclude_tile_entities" -> exclude_tile_entities(v)
      [] call.name = "exclude_falling" -> exclude_falling(v)
      [] call.name = "exclude_transparent" -> exclude_transparent(v)
      [] call.name = "exclude_light_sources" -> exclude_light_sources(v)
      [] call.name = "exclude_needs_support" -> exclude_needs_support(v)
      [] call.name = "survival_only" -> survival_only(v)
      [] call.name = "with_color" -> with_color(v)
      [] call.name = "with_property" -> with_property(v, call.args[1])
      [] call.name = "with_property_value" ->
             with_property_value(v, call.args[1], call.args[2])
      [] call.name = "matching" -> matching(v, call.args[1])
      [] call.name = "from_families" -> from_families(v, call.args[1])
      [] call.name = "exclude_families" -> exclude_families(v, call.args[1])
      [] call.name = "similar_to_color" ->
             similar_to_color(v, from_rgb(call.args[1]), call.args[2])

\* the predicate of the filter call, on one block
Keeps(call, block) ==
    CASE call.name = "only_solid" -> is_solid_block(block)
      [] call.name = "exclude_tile_entities" -> ~is_tile_entity(block)
      [] call.name = "exclude_falling" -> ~is_falling_block(block)
      [] call.name = "exclude_transparent" -> ~is_transparent(block)
      [] call.name = "exclude_light_sources" -> ~is_light_source(block)
      [] call.name = "exclude_needs_support" -> ~needs_support(block)
      [] call.name = "survival_only" -> is_survival_obtainable(block)
      [] call.name = "with_color" -> HasColor(block)
      [] call.name = "with_property" -> has_property(block, call.args[1])
      [] call.name = "with_property_value" ->
             keep_with_property_value(block, call.args[1], call.args[2])
      [] call.name = "matching" -> keep_matching(block, to_lowercase(call.args[1]))
      [] call.name = "from_families" ->
             keep_from_families(block, {to_lowercase(f) : f \in Range(call.args[1])})
      [] call.name = "exclude_families" ->
             ~keep_from_families(block, {to_lowercase(f) : f \in Range(call.args[1])})
      [] call.name = "similar_to_color" ->
             keep_similar_to_color(block, from_rgb(call.args[1]), call.args[2])

\* number of occurrences of x in v
Count(x, v) == Cardinality({i \in DOMAIN v : v[i] = x})

IsPermutation(v, w) ==
    /\ Len(v) = Len(w)
    /\ \A x \in Range(v) \cup Range(w) : Count(x, v) = Count(x, w)

\* C8: for the filter f that has just returned f(W) and every filter call g,
\* g(f(W)) = f(g(W)) = the members of W that satisfy both predicates, in W's
\* order, and f(W) has no more members than W.
C8_FiltersCommute ==
    (Returned /\ op.name \in FilterNames)
    => /\ Len(blocks) <= Len(prev)
       /\ \A g \in FilterCalls :
              LET both == SelectSeq(prev, LAMBDA block : Keeps(op, block) /\ Keeps(g, block))
              IN  /\ ApplyFilter(g, blocks) = both
                  /\ ApplyFilter(op, ApplyFilter(g, prev)) = both

\* a filter has removed one member of a three-member working set, another
\* filter removes a different member, and a member passes both
C8_Witness ==
    /\ Returned
    /\ op.name = "matching"
    /\ Len(prev) = 3
    /\ Len(blocks) = 2
    /\ \E g \in FilterCalls :
           /\ Len(ApplyFilter(g, prev)) = 2
           /\ ApplyFilter(g, prev) # blocks
           /\ Len(ApplyFilter(g, blocks)) = 1
           /\ ApplyFilter(op, ApplyFilter(g, prev)) = ApplyFilter(g, blocks)

\* C9: applying the filter that has just returned once more, with the same
\* arguments, to its own result returns that result unchanged.
C9_FilterIdempotent ==
    (Returned /\ op.name \in FilterNames) => ApplyFilter(op, blocks) = blocks

\* with_color has removed two adjacent uncoloured members and kept a
\* coloured one, and a second application keeps the result
C9_Witness ==
    /\ Returned
    /\ op.name = "with_color"
    /\ Len(prev) = 3
    /\ ~HasColor(prev[1])
    /\ ~HasColor(prev[2])
    /\ Len(blocks) = 1
    /\ with_color(blocks) = blocks

SortNames == {"sort_by_name", "sort_by_color_similarity", "sort_by_color_gradient"}

\* C10 as stated: each of sort_by_name, sort_by_color_similarity and
\* sort_by_color_gradient returns a permutation of its input, also when the
\* input holds blocks without colour data.
C10_Original ==
    (Returned /\ op.name \in SortNames) => IsPermutation(blocks, prev)

\* C10: sort_by_name and sort_by_color_similarity return a permutation of
\* their input, also when it holds blocks without colour data;
\* sort_by_color_gradient returns its input unchanged when the input has at
\* most one member and otherwise a permutation of the input's coloured
\* members.
C10_SortsPermute ==
    /\ (Returned /\ op.name \in {"sort_by_name", "sort_by_color_similarity"})
       => IsPermutation(blocks, prev)
    /\ (Returned /\ op.name = "sort_by_color_gradient")
       => IF Len(prev) <= 1 THEN blocks = prev
          ELSE IsPermutation(blocks, SelectSeq(prev, HasColor))

\* sort_by_color_gradient has returned the coloured members, at least two, of
\* a working set that also holds a block without colour data
C10_Witness ==
    /\ Returned
    /\ op.name = "sort_by_color_gradient"
    /\ \E i \in DOMAIN prev : ~HasColor(prev[i])
    /\ Len(blocks) >= 2
    /\ Len(blocks) < Len(prev)
    /\ IsPermutation(blocks, SelectSeq(prev, HasColor))

\* the colours of the coloured members of v, in order
ColorsOf(v) ==
    LET colored_blocks == SelectSeq(v, HasColor)
    IN  [k \in 1..Len(colored_blocks) |-> color_of(colored_blocks[k])]

\* C11: no block identifier appears twice in the result of one
\* generate_multi_gradient call (each target colour is resolved among the
\* blocks not used earlier in the call, as generate_gradient does).
C11_MultiGradientUnique ==
    (Returned /\ op.name = "generate_multi_gradient")
    => \A i, j \in DOMAIN blocks : id(blocks[i]) = id(blocks[j]) => i = j

\* C12: for a working set with k >= 2 coloured members and config.steps >= k,
\* in RGB space with linear easing, the target colours of
\* generate_multi_gradient are non-empty, start at the first coloured member's
\* colour, end at the last one's and hold every coloured member's colour in
\* working-set order.
C12_MultiGradientAnchors ==
    (Returned /\ op.name = "generate_multi_gradient"
        /\ ConfigOf(op).color_space = "Rgb" /\ ConfigOf(op).easing = "Linear"
        /\ Len(ColorsOf(prev)) >= 2 /\ ConfigOf(op).steps >= Len(ColorsOf(prev)))
    => LET colors == ColorsOf(prev)
           targets == create_multi_gradient_colors(colors, ConfigOf(op), LabOf(op))
       IN  /\ targets # <<>>
           /\ targets[1] = colors[1]
           /\ targets[Len(targets)] = colors[Len(colors)]
           /\ \E pos \in [DOMAIN colors -> DOMAIN targets] :
                  /\ \A i \in DOMAIN colors : targets[pos[i]] = colors[i]
                  /\ \A i, j \in DOMAIN colors : i < j => pos[i] < pos[j]

\* C13: generate_multi_gradient returns at most config.steps blocks, and
\* every block it returns carries colour data.
C13_MultiGradientBounded ==
    (Returned /\ op.name = "generate_multi_gradient")
    => /\ Len(blocks) <= ConfigOf(op).steps
       /\ \A i \in DOMAIN blocks : HasColor(blocks[i])

\* a working set with two coloured members and an uncoloured one has
\* produced exactly config.steps blocks
C13_Witness ==
    /\ Returned
    /\ op.name = "generate_multi_gradient"
    /\ Len(ColorsOf(prev)) = 2
    /\ Len(prev) = 3
    /\ ConfigOf(op).steps = 3
    /\ Len(blocks) = 3

\* ------------------------------------------------------------------------
\* The colour functions as calls: distances and hue interpolation applied to
\* sampled arguments
\* ------------------------------------------------------------------------
ChannelSamples == {0, 1, 128, 255}
RgbSamples == {<<r, g, b>> : r \in ChannelSamples, g \in ChannelSamples, b \in ChannelSamples}

\* hues in 1/HueScale degree, and interpolation parameters
HueSamples == {0, 1000, 9000, 18000, 27000, 35000, 35999}
TSamples == {<<0, 1>>, <<1, FP>>, <<1, 4>>, <<1, 2>>, <<3, 4>>, <<1, 1>>}

InitColor == Init /\ BLOCKS = <<>>

\* a function that takes no query returns `value` to a caller without query
ReturnsValue(name, args, value) ==
    /\ found' = value
    /\ op' = Call(name, args)
    /\ pc' = "returned_start"
    /\ UNCHANGED <<BLOCKS, blocks, prev>>

DistanceOklab ==
    /\ pc = "start"
    /\ \E x \in RgbSamples, y \in RgbSamples :
           ReturnsValue("distance_oklab", <<x, y>>, distance_oklab(from_rgb(x), from_rgb(y)))

DistanceRgb ==
    /\ pc = "start"
    /\ \E x \in RgbSamples, y \in RgbSamples :
           ReturnsValue("distance_rgb", <<x, y>>, distance_rgb(from_rgb(x), from_rgb(y)))

HslDistance ==
    /\ pc = "start"
    /\ \E x \in RgbSamples, y \in RgbSamples :
           ReturnsValue("hsl_distance", <<x, y>>, hsl_distance(from_rgb(x), from_rgb(y)))

InterpolateHue ==
    /\ pc = "start"
    /\ \E h1 \in HueSamples, h2 \in HueSamples, t \in TSamples :
           ReturnsValue("interpolate_hue", <<h1, h2, t>>, interpolate_hue(h1, h2, t))

ColorGradientInterpolateHue ==
    /\ pc = "start"
    /\ \E h1 \in HueSamples, h2 \in HueSamples, t \in TSamples :
           ReturnsValue("ColorGradient::interpolate_hue", <<h1, h2, t>>,
                        ColorGradient_interpolate_hue(h1, h2, t))

NextColor ==
    \/ DistanceOklab
    \/ DistanceRgb
    \/ HslDistance
    \/ InterpolateHue
    \/ ColorGradientInterpolateHue
    \/ Chain

SpecColor == InitColor /\ [][NextColor]_vars

\* C14: distance_oklab and distance_rgb of colours built by from_rgb are
\* non-negative, symmetric in their arguments, and zero exactly when the two
\* colours have the same RGB triple.
C14_DistanceMetric ==
    /\ (Returned /\ op.name = "distance_oklab")
       => /\ found >= 0
          /\ found = distance_oklab(from_rgb(op.args[2]), from_rgb(op.args[1]))
          /\ (found = 0) <=> (op.args[1] = op.args[2])
    /\ (Returned /\ op.name = "distance_rgb")
       => /\ found >= 0
          /\ found = distance_rgb(from_rgb(op.args[2]), from_rgb(op.args[1]))
          /\ (found = 0) <=> (op.args[1] = op.args[2])

\* two colours that differ only by one step of blue are at a positive Oklab
\* distance
C14_Witness ==
    /\ Returned
    /\ op.name = "distance_oklab"
    /\ op.args[1] = <<128, 128, 0>>
    /\ op.args[2] = <<128, 128, 1>>
    /\ found > 0

\* C15: hsl_distance is non-negative, symmetric in its arguments and zero
\* for equal arguments, and its hue term is the shorter angular difference of
\* the two hues, at most 180 degrees in magnitude.
C15_HslDistanceSymmetric ==
    (Returned /\ op.name = "hsl_distance")
    => LET x == from_rgb(op.args[1])
           y == from_rgb(op.args[2])
       IN  /\ found >= 0
           /\ found = hsl_distance(y, x)
           /\ op.args[1] = op.args[2] => found = 0
           /\ Abs(hsl_distance_dh(x, y)) <= 180 * HueScale

\* angular distance of two hues on the circle
HueArc(h1, h2) == Min(Abs(h1 - h2), 360 * HueScale - Abs(h1 - h2))

\* C16: for hues in [0, 360) and t in [0, 1] interpolate_hue returns a hue in
\* [0, 360) that lies on the shorter arc between the two hues; from 350 to 10
\* degrees at t = 1/2 it returns 0; the copy in ColorGradient returns the same
\* value.
C16_HueShortestArc ==
    (Returned /\ op.name \in {"interpolate_hue", "ColorGradient::interpolate_hue"})
    => LET h1 == op.args[1]
           h2 == op.args[2]
           t == op.args[3]
       IN  /\ 0 <= found /\ found < 360 * HueScale
           /\ HueArc(h1, found % (360 * HueScale)) <= HueArc(h1, h2)
           /\ HueArc(found % (360 * HueScale), h2) <= HueArc(h1, h2)
           /\ (h1 = 35000 /\ h2 = 1000 /\ t = <<1, 2>>) => found = 0
           /\ interpolate_hue(h1, h2, t) = ColorGradient_interpolate_hue(h1, h2, t)

\* ------------------------------------------------------------------------
\* BlockFilter (src/src/color/block_palettes.rs)
\* ------------------------------------------------------------------------
\* #[derive(Default)]: every flag false, both pattern lists empty
BlockFilter_default ==
    [exclude_falling |-> FALSE, exclude_tile_entities |-> FALSE,
     full_blocks_only |-> FALSE, exclude_needs_support |-> FALSE,
     exclude_transparent |-> FALSE, exclude_light_sources |-> FALSE,
     survival_obtainable_only |-> FALSE,
     exclude_patterns |-> <<>>, include_patterns |-> <<>>]

solid_blocks_only ==
    [exclude_falling |-> TRUE, exclude_tile_entities |-> TRUE,
     full_blocks_only |-> TRUE, exclude_needs_support |-> TRUE,
     exclude_transparent |-> TRUE, exclude_light_sources |-> FALSE,
     survival_obtainable_only |-> TRUE,
     exclude_patterns |->
        <<<<"_","s","l","a","b">>,
          <<"_","s","t","a","i","r","s">>,
          <<"_","f","e","n","c","e">>,
          <<"_","g","a","t","e">>,
          <<"_","w","a","l","l">>,
          <<"_","b","u","t","t","o","n">>,
          <<"_","p","r","e","s","s","u","r","e","_","p","l","a","t","e">>,
          <<"_","d","o","o","r">>,
          <<"_","t","r","a","p","d","o","o","r">>>>,
     include_patterns |-> <<>>]

decorative_blocks ==
    [exclude_falling |-> TRUE, exclude_tile_entities |-> TRUE,
     full_blocks_only |-> FALSE, exclude_needs_support |-> FALSE,
     exclude_transparent |-> FALSE, exclude_light_sources |-> FALSE,
     survival_obtainable_only |-> TRUE,
     exclude_patterns |-> <<>>, include_patterns |-> <<>>]

structural_blocks_only ==
    [exclude_falling |-> TRUE, exclude_tile_entities |-> TRUE,
     full_blocks_only |-> TRUE, exclude_needs_support |-> TRUE,
     exclude_transparent |-> TRUE, exclude_light_sources |-> TRUE,
     survival_obtainable_only |-> TRUE,
     exclude_patterns |->
        <<<<"_","s","l","a","b">>,
          <<"_","s","t","a","i","r","s">>,
          <<"_","f","e","n","c","e">>,
          <<"_","g","a","t","e">>,
          <<"_","w","a","l","l">>,
          <<"_","b","u","t","t","o","n">>,
          <<"_","p","r","e","s","s","u","r","e","_","p","l","a","t","e">>,
          <<"_","d","o","o","r">>,
          <<"_","t","r","a","p","d","o","o","r">>,
          <<"g","l","a","s","s">>,
          <<"w","a","t","e","r">>,
          <<"l","a","v","a">>,
          <<"a","i","r">>>>,
     include_patterns |-> <<>>]

\* mutant: an empty include list is treated as including nothing
allows_block_EmptyIncludeRejects(filter, block) ==
    LET lid == to_lowercase(id(block))
    IN  \E k \in DOMAIN filter.include_patterns :
            contains(lid, to_lowercase(filter.include_patterns[k]))

\* BlockFilter's private classification helpers take the lower-cased id; their
\* substring lists are those of the BlockQuery helpers above
allows_block(filter, block) ==
    LET lid == to_lowercase(id(block))
        any_pattern(patterns) ==
            \E k \in DOMAIN patterns : contains(lid, to_lowercase(patterns[k]))
        is_falling == ContainsAny(lid, FallingPatterns)
        is_tile == ContainsAny(lid, TileEntityPatterns)
        is_full == ~ContainsAny(lid, SolidPatterns)
        support ==
            \/ ContainsAny(lid, SupportPatterns)
            \/ (contains(lid, Literals.grass) /\ ~contains(lid, Literals.grass_block))
            \/ (contains(lid, Literals.mushroom) /\ ~contains(lid, Literals.mushroom_block))
            \/ (contains(lid, Literals.coral) /\ ~contains(lid, Literals.coral_block))
        transparent == ContainsAny(lid, TransparentPatterns)
        light == ContainsAny(lid, LightSourcePatterns)
        obtainable == ~ContainsAny(lid, CreativePatterns)
    IN  IF filter.include_patterns # <<>> /\ ~any_pattern(filter.include_patterns) THEN FALSE
        ELSE IF any_pattern(filter.exclude_patterns) THEN FALSE
        ELSE IF filter.exclude_falling /\ is_falling THEN FALSE
        ELSE IF filter.exclude_tile_entities /\ is_tile THEN FALSE
        ELSE IF filter.full_blocks_only /\ ~is_full THEN FALSE
        ELSE IF filter.exclude_needs_support /\ support THEN FALSE
        ELSE IF filter.exclude_transparent /\ transparent THEN FALSE
        ELSE IF filter.exclude_light_sources /\ light THEN FALSE
        ELSE IF filter.survival_obtainable_only /\ ~obtainable THEN FALSE
        ELSE TRUE

\* ------------------------------------------------------------------------
\* BlockPaletteGenerator: themed palettes
\* ------------------------------------------------------------------------
\* the anchor lists, names and themes of generate_<theme>_palette_filtered
ThemedPalettes ==
    [forest |->
        [name |-> "Forest Biome", theme |-> "Natural",
         block_ids |->
            <<<<"m","i","n","e","c","r","a","f","t",":","o","a","k","_","l","o","g">>,
              <<"m","i","n","e","c","r","a","f","t",":","o","a","k","_","l","e","a","v","e","s">>,
              <<"m","i","n","e","c","r","a","f","t",":","g","r","a","s","s","_","b","l","o","c","k">>,
              <<"m","i","n","e","c","r","a","f","t",":","c","o","a","r","s","e","_","d","i","r","t">>,
              <<"m","i","n","e","c","r","a","f","t",":","m","o","s","s","_","b","l","o","c","k">>,
              <<"m","i","n","e","c","r","a","f","t",":","f","e","r","n">>>>],
     desert |->
        [name |-> "Desert Biome", theme |-> "Natural",
         block_ids |->
            <<<<"m","i","n","e","c","r","a","f","t",":","s","a","n","d">>,
              <<"m","i","n","e","c","r","a","f","t",":","s","a","n","d","s","t","o","n","e">>,
              <<"m","i","n","e","c","r","a","f","t",":","s","m","o","o","t","h","_","s","a","n","d","s","t","o","n","e">>,
              <<"m","i","n","e","c","r","a","f","t",":","c","u","t","_","s","a","n","d","s","t","o","n","e">>,
              <<"m","i","n","e","c","r","a","f","t",":","r","e","d","_","s","a","n","d">>,
              <<"m","i","n","e","c","r","a","f","t",":","t","e","r","r","a","c","o","t","t","a">>>>],
     ocean |->
        [name |-> "Ocean Biome", theme |-> "Natural",
         block_ids |->
            <<<<"m","i","n","e","c","r","a","f","t",":","w","a","t","e","r">>,
              <<"m","i","n","e","c","r","a","f","t",":","p","r","i","s","m","a","r","i","n","e">>,
              <<"m","i","n","e","c","r","a","f","t",":","d","a","r","k","_","p","r","i","s","m","a","r","i","n","e">>,
              <<"m","i","n","e","c","r","a","f","t",":","s","e","a","_","l","a","n","t","e","r","n">>,
              <<"m","i","n","e","c","r","a","f","t",":","k","e","l","p">>,
              <<"m","i","n","e","c","r","a","f","t",":","s","a","n","d">>>>],
     mountain |->
        [name |-> "Mountain Biome", theme |-> "Natural",
         block_ids |->
            <<<<"m","i","n","e","c","r","a","f","t",":","s","t","o","n","e">>,
              <<"m","i","n","e","c","r","a","f","t",":","c","o","b","b","l","e","s","t","o","n","e">>,
              <<"m","i","n","e","c","r","a","f","t",":","a","n","d","e","s","i","t","e">>,
              <<"m","i","n","e","c","r","a","f","t",":","g","r","a","n","i","t","e">>,
              <<"m","i","n","e","c","r","a","f","t",":","d","i","o","r","i","t","e">>,
              <<"m","i","n","e","c","r","a","f","t",":","g","r","a","v","e","l">>>>],
     nether |->
        [name |-> "Nether Dimension", theme |-> "Natural",
         block_ids |->
            <<<<"m","i","n","e","c","r","a","f","t",":","n","e","t","h","e","r","r","a","c","k">>,
              <<"m","i","n","e","c","r","a","f","t",":","n","e","t","h","e","r","_","b","r","i","c","k","s">>,
              <<"m","i","n","e","c","r","a","f","t",":","b","l","a","c","k","s","t","o","n","e">>,
              <<"m","i","n","e","c","r","a","f","t",":","c","r","i","m","s","o","n","_","p","l","a","n","k","s">>,
              <<"m","i","n","e","c","r","a","f","t",":","w","a","r","p","e","d","_","p","l","a","n","k","s">>,
              <<"m","i","n","e","c","r","a","f","t",":","s","o","u","l","_","s","a","n","d">>>>],
     end |->
        [name |-> "End Dimension", theme |-> "Natural",
         block_ids |->
            <<<<"m","i","n","e","c","r","a","f","t",":","e","n","d","_","s","t","o","n","e">>,
              <<"m","i","n","e","c","r","a","f","t",":","p","u","r","p","u","r","_","b","l","o","c","k">>,
              <<"m","i","n","e","c","r","a","f","t",":","e","n","d","_","s","t","o","n","e","_","b","r","i","c","k","s">>,
              <<"m","i","n","e","c","r","a","f","t",":","o","b","s","i","d","i","a","n">>,
              <<"m","i","n","e","c","r","a","f","t",":","c","h","o","r","u","s","_","f","l","o","w","e","r">>,
              <<"m","i","n","e","c","r","a","f","t",":","c","h","o","r","u","s","_","p","l","a","n","t">>>>],
     medieval |->
        [name |-> "Medieval Architecture", theme |-> "Architectural",
         block_ids |->
            <<<<"m","i","n","e","c","r","a","f","t",":","c","o","b","b","l","e","s","t","o","n","e">>,
              <<"m","i","n","e","c","r","a","f","t",":","o","a","k","_","p","l","a","n","k","s">>,
              <<"m","i","n","e","c","r","a","f","t",":","s","t","o","n","e","_","b","r","i","c","k","s">>,
              <<"m","i","n","e","c","r","a","f","t",":","d","a","r","k","_","o","a","k","_","p","l","a","n","k","s">>,
              <<"m","i","n","e","c","r","a","f","t",":","m","o","s","s","y","_","c","o","b","b","l","e","s","t","o","n","e">>,
              <<"m","i","n","e","c","r","a","f","t",":","o","a","k","_","l","o","g">>>>],
     modern |->
        [name |-> "Modern Architecture", theme |-> "Architectural",
         block_ids |->
            <<<<"m","i","n","e","c","r","a","f","t",":","w","h","i","t","e","_","c","o","n","c","r","e","t","e">>,
              <<"m","i","n","e","c","r","a","f","t",":","l","i","g","h","t","_","g","r","a","y","_","c","o","n","c","r","e","t","e">>,
              <<"m","i","n","e","c","r","a","f","t",":","g","l","a","s","s">>,
              <<"m","i","n","e","c","r","a","f","t",":","i","r","o","n","_","b","l","o","c","k">>,
              <<"m","i","n","e","c","r","a","f","t",":","q","u","a","r","t","z","_","b","l","o","c","k">>,
              <<"m","i","n","e","c","r","a","f","t",":","b","l","a","c","k","_","c","o","n","c","r","e","t","e">>>>],
     rustic |->
        [name |-> "Rustic Style", theme |-> "Architectural",
         block_ids |->
            <<<<"m","i","n","e","c","r","a","f","t",":","s","t","r","i","p","p","e","d","_","o","a","k","_","l","o","g">>,
              <<"m","i","n","e","c","r","a","f","t",":","c","o","b","b","l","e","s","t","o","n","e">>,
              <<"m","i","n","e","c","r","a","f","t",":","c","o","a","r","s","e","_","d","i","r","t">>,
              <<"m","i","n","e","c","r","a","f","t",":","h","a","y","_","b","a","l","e">>,
              <<"m","i","n","e","c","r","a","f","t",":","o","a","k","_","f","e","n","c","e">>,
              <<"m","i","n","e","c","r","a","f","t",":","s","t","o","n","e">>>>],
     industrial |->
        [name |-> "Industrial Style", theme |-> "Architectural",
         block_ids |->
            <<<<"m","i","n","e","c","r","a","f","t",":","i","r","o","n","_","b","l","o","c","k">>,
              <<"m","i","n","e","c","r","a","f","t",":","g","r","a","y","_","c","o","n","c","r","e","t","e">>,
              <<"m","i","n","e","c","r","a","f","t",":","o","b","s","e","r","v","e","r">>,
              <<"m","i","n","e","c","r","a","f","t",":","a","n","v","i","l">>,
              <<"m","i","n","e","c","r","a","f","t",":","c","a","u","l","d","r","o","n">>,
              <<"m","i","n","e","c","r","a","f","t",":","r","e","d","s","t","o","n","e","_","b","l","o","c","k">>>>]]


\* the theme and style names the generators match on
ThemeNames ==
    [forest |-> <<"f","o","r","e","s","t">>,
     woods |-> <<"w","o","o","d","s">>,
     desert |-> <<"d","e","s","e","r","t">>,
     sand |-> <<"s","a","n","d">>,
     ocean |-> <<"o","c","e","a","n">>,
     water |-> <<"w","a","t","e","r">>,
     mountain |-> <<"m","o","u","n","t","a","i","n">>,
     stone |-> <<"s","t","o","n","e">>,
     nether |-> <<"n","e","t","h","e","r">>,
     end |-> <<"e","n","d">>,
     medieval |-> <<"m","e","d","i","e","v","a","l">>,
     modern |-> <<"m","o","d","e","r","n">>,
     rustic |-> <<"r","u","s","t","i","c">>,
     industrial |-> <<"i","n","d","u","s","t","r","i","a","l">>]

BlockRecommendation(block, color, role) ==
    [block |-> block, color |-> color, role |-> role]

\* the loop of create_themed_palette_filtered over block_ids.iter().enumerate();
\* usage_notes and the palette's description are texts that no caller branches on
\* and are left out
RECURSIVE ThemedBlocks(_, _, _, _)
ThemedBlocks(block_ids, filter, i, result) ==
    IF i >= Len(block_ids) THEN result
    ELSE LET entry == get(block_ids[i + 1])
         IN  IF entry = None THEN ThemedBlocks(block_ids, filter, i + 1, result)
             ELSE IF ~allows_block(filter, Unwrap(entry))
             THEN ThemedBlocks(block_ids, filter, i + 1, result)
             ELSE LET block == Unwrap(entry)
                      role == IF i = 0 THEN "Primary"
                              ELSE IF i = 1 THEN "Secondary"
                              ELSE IF i = Len(block_ids) - 1 THEN "Accent"
                              ELSE "Transition"
                      color == IF HasColor(block) THEN color_of(block)
                               ELSE from_rgb(<<128, 128, 128>>)
                  IN  ThemedBlocks(block_ids, filter, i + 1,
                                   Append(result, BlockRecommendation(block, color, role)))

BlockPalette(name, palette_blocks, theme) ==
    [name |-> name, blocks |-> palette_blocks, theme |-> theme]

\* mutant: an empty palette is returned instead of None
create_themed_palette_filtered_SomeWhenEmpty(name, block_ids, theme, filter) ==
    Some(BlockPalette(name, ThemedBlocks(block_ids, filter, 0, <<>>), theme))

\* mutant: the filter is not consulted
create_themed_palette_filtered_IgnoreFilter(name, block_ids, theme, filter) ==
    LET palette_blocks == ThemedBlocks(block_ids, BlockFilter_default, 0, <<>>)
    IN  IF palette_blocks = <<>> THEN None
        ELSE Some(BlockPalette(name, palette_blocks, theme))

create_themed_palette_filtered(name, block_ids, theme, filter) ==
    LET palette_blocks == ThemedBlocks(block_ids, filter, 0, <<>>)
    IN  IF palette_blocks = <<>> THEN None
        ELSE Some(BlockPalette(name, palette_blocks, theme))

\* generate_<key>_palette_filtered, one function per key of ThemedPalettes
generate_theme_palette_filtered(key, filter) ==
    create_themed_palette_filtered(ThemedPalettes[key].name, ThemedPalettes[key].block_ids,
                                   ThemedPalettes[key].theme, filter)

generate_natural_palette_filtered(theme, filter) ==
    LET name == to_lowercase(theme)
    IN  IF name \in {ThemeNames.forest, ThemeNames.woods}
        THEN generate_theme_palette_filtered("forest", filter)
        ELSE IF name \in {ThemeNames.desert, ThemeNames.sand}
        THEN generate_theme_palette_filtered("desert", filter)
        ELSE IF name \in {ThemeNames.ocean, ThemeNames.water}
        THEN generate_theme_palette_filtered("ocean", filter)
        ELSE IF name \in {ThemeNames.mountain, ThemeNames.stone}
        THEN generate_theme_palette_filtered("mountain", filter)
        ELSE IF name = ThemeNames.nether
        THEN generate_theme_palette_filtered("nether", filter)
        ELSE IF name = ThemeNames.end
        THEN generate_theme_palette_filtered("end", filter)
        ELSE None

generate_natural_palette(theme) ==
    generate_natural_palette_filtered(theme, BlockFilter_default)

generate_architectural_palette_filtered(style, filter) ==
    LET name == to_lowercase(style)
    IN  IF name = ThemeNames.medieval
        THEN generate_theme_palette_filtered("medieval", filter)
        ELSE IF name = ThemeNames.modern
        THEN generate_theme_palette_filtered("modern", filter)
        ELSE IF name = ThemeNames.rustic
        THEN generate_theme_palette_filtered("rustic", filter)
        ELSE IF name = ThemeNames.industrial
        THEN generate_theme_palette_filtered("industrial", filter)
        ELSE None

generate_architectural_palette(style) ==
    generate_architectural_palette_filtered(style, BlockFilter_default)

\* ------------------------------------------------------------------------
\* ColorGradient and PaletteGenerator (src/src/color/palettes.rs)
\* ------------------------------------------------------------------------
GradientMethods == {"LinearRgb", "LinearHsl", "LinearOklab", "CubicBezier"}

\* ColorGradient's private interpolate_rgb, interpolate_hsl, interpolate_oklab,
\* hsl_to_rgb and oklab_to_rgb have the bodies of the BlockQuery functions of
\* the same names; the smoothstep of interpolate_cubic_bezier is t*t*(3 - 2t)
ColorGradient_interpolate_colors(start, end, t, method) ==
    CASE method = "LinearRgb" -> interpolate_rgb(start, end, t)
      [] method = "LinearHsl" -> interpolate_hsl(start, end, t)
      [] method = "LinearOklab" -> interpolate_oklab(start, end, t)
      [] method = "CubicBezier" ->
            interpolate_rgb(start, end,
                            <<t[1] * t[1] * (3 * t[2] - 2 * t[1]), t[2] * t[2] * t[2]>>)

\* the inner loop of generate: the colours of one segment
SegmentColors(start, end, segment_steps, method) ==
    [k \in 1..segment_steps |->
        LET t == IF segment_steps = 1 THEN <<0, 1>> ELSE <<k - 1, segment_steps - 1>>
        IN  ColorGradient_interpolate_colors(start, end, t, method)]

\* the outer loop of generate, `for seg in 0..segments`
RECURSIVE GradientSegments(_, _, _, _, _)
GradientSegments(colors, method, steps, seg, palette) ==
    LET segments == Len(colors) - 1
        steps_per_segment == steps \div segments
    IN  IF seg >= segments THEN palette
        ELSE LET segment_steps == IF seg = segments - 1
                                  THEN steps - seg * steps_per_segment
                                  ELSE steps_per_segment
             IN  GradientSegments(colors, method, steps, seg + 1,
                                  palette \o SegmentColors(colors[seg + 1], colors[seg + 2],
                                                           segment_steps, method))

ColorGradient_generate(colors, method, steps) ==
    IF Len(colors) < 2 THEN colors
    ELSE LET palette == GradientSegments(colors, method, steps, 0, <<>>)
         IN  IF Len(palette) < steps THEN Append(palette, colors[Len(colors)])
             ELSE palette

generate_gradient_palette(start, end, steps, method) ==
    ColorGradient_generate(<<start, end>>, method, steps)

\* mutant: the light half comes first, the dark half last
PaletteGenerator_generate_monochrome_palette_LightFirst(base_color, steps) ==
    LET black == from_rgb(<<0, 0, 0>>)
        white == from_rgb(<<255, 255, 255>>)
        half_steps == steps \div 2
    IN  generate_gradient_palette(white, base_color, half_steps, "LinearOklab")
        \o skip(generate_gradient_palette(base_color, black, steps - half_steps,
                                          "LinearOklab"), 1)

PaletteGenerator_generate_monochrome_palette(base_color, steps) ==
    LET black == from_rgb(<<0, 0, 0>>)
        white == from_rgb(<<255, 255, 255>>)
        half_steps == steps \div 2
        dark_gradient == generate_gradient_palette(black, base_color, half_steps, "LinearOklab")
        light_gradient == generate_gradient_palette(base_color, white, steps - half_steps,
                                                    "LinearOklab")
    IN  dark_gradient \o skip(light_gradient, 1)

\* the scan `for (i, candidate) in remaining.iter().enumerate()` of
\* generate_distinct_palette: the index of the candidate farthest from the palette
RECURSIVE MostDistinct(_, _, _, _, _)
MostDistinct(remaining, palette, i, best_index, best_distance) ==
    IF i >= Len(remaining) THEN best_index
    ELSE LET distances == {distance_oklab(remaining[i + 1], palette[k]) : k \in DOMAIN palette}
             min_distance == IF distances = {} THEN INFINITY
                             ELSE CHOOSE x \in distances : \A y \in distances : x <= y
         IN  IF min_distance > best_distance
             THEN MostDistinct(remaining, palette, i + 1, i, min_distance)
             ELSE MostDistinct(remaining, palette, i + 1, best_index, best_distance)

\* the loop `while palette.len() < max_colors && !remaining.is_empty()`
RECURSIVE DistinctLoop(_, _, _)
DistinctLoop(palette, remaining, max_colors) ==
    IF Len(palette) < max_colors /\ remaining # <<>>
    THEN LET best_index == MostDistinct(remaining, palette, 0, 0, 0)
         IN  DistinctLoop(Append(palette, remaining[best_index + 1]),
                          remove(remaining, best_index), max_colors)
    ELSE palette

generate_distinct_palette(colors, max_colors) ==
    IF Len(colors) <= max_colors THEN colors
    ELSE \* remaining.pop() takes the last colour; colors is not empty here
         DistinctLoop(<<colors[Len(colors)]>>, SubSeq(colors, 1, Len(colors) - 1), max_colors)

\* the hue shifted by offset degrees, with the base colour's saturation and lightness
ShiftedHue(base_color, offset) ==
    from_rgb(hsl_to_rgb((base_color.hsl[1] + offset * HueScale) % (360 * HueScale),
                        base_color.hsl[2], base_color.hsl[3]))

PaletteGenerator_generate_complementary_palette(base_color) ==
    <<base_color, ShiftedHue(base_color, 180), ShiftedHue(base_color, 120),
      ShiftedHue(base_color, 240)>>

\* ------------------------------------------------------------------------
\* BlockPaletteGenerator: palettes resolved from colours
\* ------------------------------------------------------------------------
\* the `match i` of generate_block_gradient_filtered ("Gradient", n = steps), of
\* generate_monochrome_palette ("Monochrome", n = range) and of
\* generate_complementary_palette ("Complementary")
RoleAt(theme, i, n) ==
    CASE theme = "Gradient" ->
            IF i = 0 THEN "Primary"
            ELSE IF i = n - 1 THEN "Accent"
            ELSE IF i = n \div 2 THEN "Secondary"
            ELSE "Transition"
      [] theme = "Monochrome" ->
            IF i = 0 THEN "Accent"
            ELSE IF i = n \div 2 THEN "Primary"
            ELSE IF i = n - 1 THEN "Highlight"
            ELSE "Secondary"
      [] theme = "Complementary" ->
            IF i = 0 THEN "Primary"
            ELSE IF i = 1 THEN "Accent"
            ELSE "Secondary"

\* the loop `for (i, target_color) in colors.iter().enumerate()` of the three
\* generators: the nearest coloured catalog block of each target colour
RECURSIVE ResolvedBlocks(_, _, _, _, _)
ResolvedBlocks(target_colors, theme, n, i, result) ==
    IF i >= Len(target_colors) THEN result
    ELSE LET closest == find_closest_block_to_color(target_colors[i + 1])
         IN  IF closest = None THEN ResolvedBlocks(target_colors, theme, n, i + 1, result)
             ELSE ResolvedBlocks(target_colors, theme, n, i + 1,
                                 Append(result,
                                        BlockRecommendation(Unwrap(closest),
                                                            color_of(Unwrap(closest)),
                                                            RoleAt(theme, i, n))))

\* the parameter _filter is not used by the function
generate_block_gradient_filtered(start_block, end_block, steps, filter) ==
    IF ~HasColor(start_block) \/ ~HasColor(end_block) THEN None
    ELSE LET color_gradient == generate_gradient_palette(color_of(start_block),
                                                         color_of(end_block),
                                                         steps, "LinearOklab")
         IN  Some(BlockPalette(<<start_block, "to", end_block, "Gradient">>,
                               ResolvedBlocks(color_gradient, "Gradient", steps, 0, <<>>),
                               "Gradient"))

generate_block_gradient(start_block, end_block, steps) ==
    generate_block_gradient_filtered(start_block, end_block, steps, BlockFilter_default)

generate_monochrome_palette(base_block, range) ==
    IF ~HasColor(base_block) THEN None
    ELSE LET mono_colors ==
                 PaletteGenerator_generate_monochrome_palette(color_of(base_block), range)
         IN  Some(BlockPalette(<<base_block, "Monochrome">>,
                               ResolvedBlocks(mono_colors, "Monochrome", range, 0, <<>>),
                               "Monochrome"))

generate_complementary_palette(base_block) ==
    IF ~HasColor(base_block) THEN None
    ELSE LET comp_colors ==
                 PaletteGenerator_generate_complementary_palette(color_of(base_block))
         IN  Some(BlockPalette(<<base_block, "Complementary">>,
                               ResolvedBlocks(comp_colors, "Complementary", 4, 0, <<>>),
                               "Complementary"))

\* ------------------------------------------------------------------------
\* The palette generator as calls
\* ------------------------------------------------------------------------
ThemeArgs ==
    {<<"m","o","u","n","t","a","i","n">>,
     <<"M","o","u","n","t","a","i","n">>,
     <<"S","T","O","N","E">>,
     <<"d","e","s","e","r","t">>,
     <<"f","o","r","e","s","t">>,
     <<"r","u","s","t","i","c">>,
     <<"R","U","S","T","I","C">>,
     <<"m","e","d","i","e","v","a","l">>,
     <<"c","a","s","t","l","e">>,
     <<>>}

Filters ==
    {BlockFilter_default, solid_blocks_only, decorative_blocks, structural_blocks_only,
     [BlockFilter_default EXCEPT !.include_patterns = <<<<"C","o","b","b","l","e">>>>],
     [BlockFilter_default EXCEPT !.exclude_patterns = <<<<"S","T","O","N","E">>>>],
     [BlockFilter_default EXCEPT !.include_patterns = <<<<"s","t","o","n","e">>>>,
                                 !.exclude_patterns = <<<<"c","o","b","b","l","e">>>>]}

\* catalogs drawn from all of Universe
PaletteCatalogs ==
    UNION {{s \in [1..n -> 1..NumUniverse] : Increasing(s)} : n \in 0..MaxCatalog}

InitPalette ==
    /\ BLOCKS \in PaletteCatalogs
    /\ blocks = <<>>
    /\ pc = "start"
    /\ prev = <<>>
    /\ op = NoOp
    /\ found = None

GenerateNaturalPalette ==
    /\ pc = "start"
    /\ \E theme \in ThemeArgs :
        ReturnsValue("generate_natural_palette", <<theme>>,
                     generate_natural_palette(theme))

GenerateNaturalPaletteFiltered ==
    /\ pc = "start"
    /\ \E theme \in ThemeArgs, filter \in Filters :
        ReturnsValue("generate_natural_palette_filtered", <<theme, filter>>,
                     generate_natural_palette_filtered(theme, filter))

GenerateArchitecturalPalette ==
    /\ pc = "start"
    /\ \E style \in ThemeArgs :
        ReturnsValue("generate_architectural_palette", <<style>>,
                     generate_architectural_palette(style))

GenerateArchitecturalPaletteFiltered ==
    /\ pc = "start"
    /\ \E style \in ThemeArgs, filter \in Filters :
        ReturnsValue("generate_architectural_palette_filtered", <<style, filter>>,
                     generate_architectural_palette_filtered(style, filter))

GenerateBlockGradient ==
    /\ pc = "start"
    /\ \E start_block \in Range(BLOCKS), end_block \in Range(BLOCKS), steps \in 0..MaxSteps :
        ReturnsValue("generate_block_gradient", <<start_block, end_block, steps>>,
                     generate_block_gradient(start_block, end_block, steps))

GenerateBlockGradientFiltered ==
    /\ pc = "start"
    /\ \E start_block \in Range(BLOCKS), end_block \in Range(BLOCKS),
          steps \in 0..MaxSteps, filter \in Filters :
        ReturnsValue("generate_block_gradient_filtered",
                     <<start_block, end_block, steps, filter>>,
                     generate_block_gradient_filtered(start_block, end_block, steps, filter))

GenerateMonochromePalette ==
    /\ pc = "start"
    /\ \E base_block \in Range(BLOCKS), range \in 0..MaxSteps :
        ReturnsValue("generate_monochrome_palette", <<base_block, range>>,
                     generate_monochrome_palette(base_block, range))

GenerateComplementaryPalette ==
    /\ pc = "start"
    /\ \E base_block \in Range(BLOCKS) :
        ReturnsValue("generate_complementary_palette", <<base_block>>,
                     generate_complementary_palette(base_block))

NextPalette ==
    \/ GenerateNaturalPalette
    \/ GenerateNaturalPaletteFiltered
    \/ GenerateArchitecturalPalette
    \/ GenerateArchitecturalPaletteFiltered
    \/ GenerateBlockGradient
    \/ GenerateBlockGradientFiltered
    \/ GenerateMonochromePalette
    \/ GenerateComplementaryPalette
    \/ Chain

SpecPalette == InitPalette /\ [][NextPalette]_vars

\* ------------------------------------------------------------------------
\* Properties of the themed palettes
\* ------------------------------------------------------------------------
NaturalCalls == {"generate_natural_palette", "generate_natural_palette_filtered"}
ArchitecturalCalls ==
    {"generate_architectural_palette", "generate_architectural_palette_filtered"}
ThemedCall == Returned /\ op.name \in NaturalCalls \cup ArchitecturalCalls

\* the recognised names of each generator and the theme each one selects
NaturalAliases ==
    {<<"forest", "forest">>, <<"woods", "forest">>, <<"desert", "desert">>,
     <<"sand", "desert">>, <<"ocean", "ocean">>, <<"water", "ocean">>,
     <<"mountain", "mountain">>, <<"stone", "mountain">>, <<"nether", "nether">>,
     <<"end", "end">>}
ArchitecturalAliases ==
    {<<"medieval", "medieval">>, <<"modern", "modern">>, <<"rustic", "rustic">>,
     <<"industrial", "industrial">>}

\* the filter a themed call works with
FilterOf(call) == IF Len(call.args) = 2 THEN call.args[2] ELSE BlockFilter_default

\* the curated anchor lists a themed call's name selects: none or one
AnchorLists(call) ==
    LET aliases == IF call.name \in NaturalCalls THEN NaturalAliases
                   ELSE ArchitecturalAliases
    IN  {ThemedPalettes[a[2]].block_ids :
            a \in {a \in aliases : ThemeNames[a[1]] = to_lowercase(call.args[1])}}

\* anchors of the list that are in the catalog / that also pass the filter
PresentAnchors(ids) ==
    {b \in Range(BLOCKS) : \E k \in DOMAIN ids : ids[k] = id(b)}
UsableAnchors(ids, filter) ==
    {b \in PresentAnchors(ids) : allows_block(filter, b)}

\* C17: a themed palette call returns None exactly when its name, compared
\* case-insensitively, is not recognised or no anchor of the theme is both in
\* the catalog and allowed by the filter; otherwise it returns a palette with at
\* least one entry
C17_ThemedNoneExactly ==
    ThemedCall =>
        /\ found = None <=>
              \A ids \in AnchorLists(op) : UsableAnchors(ids, FilterOf(op)) = {}
        /\ found # None => Len(Unwrap(found).blocks) >= 1

\* a recognised name in another case, an anchor in the catalog, and a filter
\* that rejects every such anchor: the call returns None
C17_Witness ==
    /\ ThemedCall
    /\ op.name = "generate_natural_palette_filtered"
    /\ op.args[1] # to_lowercase(op.args[1])
    /\ \E ids \in AnchorLists(op) :
          /\ PresentAnchors(ids) # {}
          /\ UsableAnchors(ids, op.args[2]) = {}
    /\ found = None

\* position of an anchor id in its list
AnchorIndex(ids, block) == CHOOSE k \in DOMAIN ids : ids[k] = id(block)

\* C18: every entry of a themed palette is allowed by the filter and is an
\* anchor of the theme, and the entries follow the order of the anchor list,
\* no anchor appearing twice
C18_ThemedEntries ==
    (ThemedCall /\ found # None) =>
        \A ids \in AnchorLists(op) :
            LET entries == Unwrap(found).blocks
            IN  /\ \A k \in DOMAIN entries :
                      /\ allows_block(FilterOf(op), entries[k].block)
                      /\ entries[k].block \in PresentAnchors(ids)
                /\ \A j, k \in DOMAIN entries :
                      j < k => AnchorIndex(ids, entries[j].block)
                                  < AnchorIndex(ids, entries[k].block)

\* a filtered rustic palette of two entries whose anchor order (cobblestone,
\* stone) is the reverse of the catalog's, from a catalog that also holds a
\* block the filter rejects
C18_Witness ==
    /\ ThemedCall
    /\ op.name = "generate_architectural_palette_filtered"
    /\ op.args[2] = solid_blocks_only
    /\ found # None
    /\ Len(Unwrap(found).blocks) = 2
    /\ id(Unwrap(found).blocks[1].block) = ID.cobblestone
    /\ id(Unwrap(found).blocks[2].block) = ID.stone
    /\ \E b \in Range(BLOCKS) : ~allows_block(solid_blocks_only, b)

\* ------------------------------------------------------------------------
\* Properties of the resolved palettes and of the roles
\* ------------------------------------------------------------------------
\* C19: every entry of a palette returned by generate_block_gradient_filtered
\* is a block the filter allows
C19_FilteredGradientAllowed ==
    (Returned /\ op.name = "generate_block_gradient_filtered" /\ found # None) =>
        \A k \in DOMAIN Unwrap(found).blocks :
            allows_block(op.args[4], Unwrap(found).blocks[k].block)

PaletteCalls ==
    NaturalCalls \cup ArchitecturalCalls
    \cup {"generate_block_gradient", "generate_block_gradient_filtered",
          "generate_monochrome_palette", "generate_complementary_palette"}

\* C20: in every non-empty palette the first entry is Primary, the last of two
\* or more entries is Accent, the midpoint entry is Secondary and every other
\* entry is Transition or Highlight
C20_RolesByPosition ==
    (Returned /\ op.name \in PaletteCalls /\ found # None) =>
        LET entries == Unwrap(found).blocks
            n == Len(entries)
            mid == n \div 2 + 1
        IN  n >= 1 =>
              /\ entries[1].role = "Primary"
              /\ n >= 2 => entries[n].role = "Accent"
              /\ n >= 3 => entries[mid].role = "Secondary"
              /\ \A k \in 2..(n - 1) :
                    k # mid => entries[k].role \in {"Transition", "Highlight"}

\* ------------------------------------------------------------------------
\* apply_easing on f32
\*
\* An f32 is <<m, e>> and stands for m * 2^e, with 2^23 <= m < 2^24, or
\* <<0, 0>> for zero.  Products and differences are rounded to the nearest
\* f32, ties to the even mantissa, as IEEE 754 single precision does; the
\* values stay in the normal range.  Intermediate integers stay below 2^31.
\* ------------------------------------------------------------------------
RECURSIVE Pow2(_)
Pow2(k) == IF k = 0 THEN 1 ELSE 2 * Pow2(k - 1)

F32_ZERO == <<0, 0>>
F32_HALF == <<Pow2(23), -24>>
F32_ONE == <<Pow2(23), -23>>
F32_TWO == <<Pow2(23), -22>>
F32_THREE == <<3 * Pow2(22), -22>>

\* the number of low bits to drop so that 24 bits remain
RECURSIVE ExcessBits(_)
ExcessBits(i) == IF i < Pow2(24) THEN 0 ELSE 1 + ExcessBits(i \div 2)

\* the number of places to shift left so that bit 23 is set
RECURSIVE MissingBits(_)
MissingBits(i) == IF i >= Pow2(23) THEN 0 ELSE 1 + MissingBits(2 * i)

\* the f32 nearest to (i + f) * 2^e, where 0 < f < 1 if sticky and f = 0
\* otherwise; ties go to the even mantissa
f32_round(i, sticky, e) ==
    IF i = 0 THEN F32_ZERO
    ELSE IF i < Pow2(24) THEN <<i * Pow2(MissingBits(i)), e - MissingBits(i)>>
    ELSE LET k == ExcessBits(i)
             m == i \div Pow2(k)
             rest == i % Pow2(k)
             half == Pow2(k - 1)
             up == \/ rest > half
                   \/ rest = half /\ (sticky \/ m % 2 = 1)
         IN  IF ~up THEN <<m, e + k>>
             ELSE IF m + 1 = Pow2(24) THEN <<Pow2(23), e + k + 1>>
             ELSE <<m + 1, e + k>>

\* x * y: the 48-bit product of the mantissas is formed from 12-bit halves
f32_mul(x, y) ==
    IF x[1] = 0 \/ y[1] = 0 THEN F32_ZERO
    ELSE LET a == x[1] \div Pow2(12)
             b == x[1] % Pow2(12)
             c == y[1] \div Pow2(12)
             d == y[1] % Pow2(12)
             mid == a * d + b * c
             low == b * d + (mid % Pow2(12)) * Pow2(12)
             lo == low % Pow2(24)
             hi == a * c + mid \div Pow2(12) + low \div Pow2(24)
         IN  f32_round(hi * 4 + lo \div Pow2(22), lo % Pow2(22) # 0, x[2] + y[2] + 22)

\* x - y for x >= y >= 0: y is aligned to x with three guard bits
f32_sub(x, y) ==
    IF y[1] = 0 THEN x
    ELSE LET shift == x[2] - y[2]
             inexact == IF shift <= 3 THEN FALSE
                        ELSE IF shift >= 28 THEN TRUE
                        ELSE y[1] % Pow2(shift - 3) # 0
             q == IF shift <= 3 THEN y[1] * Pow2(3 - shift)
                  ELSE IF shift >= 28 THEN 0
                  ELSE y[1] \div Pow2(shift - 3)
         IN  f32_round(IF inexact THEN x[1] * 8 - q - 1 ELSE x[1] * 8 - q,
                       inexact, x[2] - 3)

\* x < y for x, y >= 0
f32_lt(x, y) ==
    IF y[1] = 0 THEN FALSE
    ELSE IF x[1] = 0 THEN TRUE
    ELSE x[2] < y[2] \/ (x[2] = y[2] /\ x[1] < y[1])

f32_le(x, y) == ~f32_lt(y, x)

\* the arguments apply_easing is called with: 0, 0.25, 0.5, two neighbouring
\* values just below 1 (0.999827325 and 0.999827385), and 1
F32Samples ==
    << F32_ZERO, <<Pow2(23), -25>>, F32_HALF,
       <<16774319, -24>>, <<16774320, -24>>, F32_ONE >>

\* (t * PI / 2).sin() at F32Samples
SineF32 ==
    << F32_ZERO, <<12840726, -25>>, <<11863283, -24>>,
       <<16777215, -24>>, <<16777215, -24>>, F32_ONE >>

\* 2.0_f32.powf(10.0 * (t - 1.0)) at F32Samples (the first entry is unused)
PowF32 ==
    << F32_ZERO, <<11863283, -31>>, <<Pow2(23), -28>>,
       <<16757148, -24>>, <<16757154, -24>>, F32_ONE >>

SampleIndex(t) == CHOOSE i \in DOMAIN F32Samples : F32Samples[i] = t

apply_easing_f32(t, easing) ==
    CASE easing = "Linear" -> t
      [] easing = "EaseIn" -> f32_mul(t, t)
      [] easing = "EaseOut" ->
            f32_sub(F32_ONE, f32_mul(f32_sub(F32_ONE, t), f32_sub(F32_ONE, t)))
      [] easing = "EaseInOut" ->
            IF f32_lt(t, F32_HALF)
            THEN f32_mul(f32_mul(F32_TWO, t), t)
            ELSE f32_sub(F32_ONE,
                         f32_mul(f32_mul(F32_TWO, f32_sub(F32_ONE, t)),
                                 f32_sub(F32_ONE, t)))
      [] easing = "CubicBezier" ->
            f32_mul(f32_mul(t, t), f32_sub(F32_THREE, f32_mul(F32_TWO, t)))
      [] easing = "Sine" -> SineF32[SampleIndex(t)]
      [] easing = "Exponential" ->
            IF t = F32_ZERO THEN F32_ZERO ELSE PowF32[SampleIndex(t)]

\* ------------------------------------------------------------------------
\* The functions of the palette module and of the query composer as calls
\* ------------------------------------------------------------------------
PaletteGeneratorGenerateMonochromePalette ==
    /\ pc = "start"
    /\ \E base \in RgbSamples, steps \in 0..MaxPaletteSteps :
        ReturnsValue("PaletteGenerator::generate_monochrome_palette", <<base, steps>>,
                     PaletteGenerator_generate_monochrome_palette(from_rgb(base), steps))

\* a flag and an include pattern that meet on the same block
DecorativeSand ==
    [decorative_blocks EXCEPT !.include_patterns = <<<<"s","a","n","d">>>>]

AllowsBlock ==
    /\ pc = "start"
    /\ \E filter \in Filters \cup {DecorativeSand}, block \in 1..NumUniverse :
        ReturnsValue("allows_block", <<filter, block>>, allows_block(filter, block))

\* anchor colour lists of a ColorGradient, the empty and the one-colour list included
AnchorColors ==
    UNION {[1..n -> {from_rgb(c) : c \in Colours}] : n \in 0..MaxAnchors}

\* new_two_color / new_multi_color followed by generate, which is also all that
\* generate_gradient_palette and generate_multi_gradient_palette do
ColorGradientGenerate ==
    /\ pc = "start"
    /\ \E colors \in AnchorColors, method \in GradientMethods, steps \in 0..MaxPaletteSteps :
        ReturnsValue("ColorGradient::generate", <<colors, method, steps>>,
                     ColorGradient_generate(colors, method, steps))

GenerateDistinctPalette ==
    /\ pc = "start"
    /\ \E colors \in AnchorColors, max_colors \in 0..(MaxAnchors + 1) :
        ReturnsValue("generate_distinct_palette", <<colors, max_colors>>,
                     generate_distinct_palette(colors, max_colors))

ApplyEasing ==
    /\ pc = "start"
    /\ \E i \in DOMAIN F32Samples, easing \in EasingFunctions :
           ReturnsValue("apply_easing", <<F32Samples[i], easing>>,
                        apply_easing_f32(F32Samples[i], easing))

\* patterns whose literal parts fit an id that ends in "stone" only when
\* they overlap, and a pattern in upper case
OverlapPatterns ==
    {<<"m","i","n","e","c","r","a","f","t",":","s","t","o","n","e","*","s","t","o","n","e">>,
     <<"*","s","t","o","n","*","t","o","n","e">>,
     <<"M","i","n","e","*","S","T","O","N","E">>}

\* the closure matching() hands to retain, applied to one block
MatchingKeeps ==
    /\ pc = "start"
    /\ \E block \in 1..NumUniverse, pattern \in Patterns \cup OverlapPatterns :
           ReturnsValue("matching", <<block, pattern>>,
                        keep_matching(block, to_lowercase(pattern)))

NextFunctions ==
    \/ PaletteGeneratorGenerateMonochromePalette
    \/ AllowsBlock
    \/ ColorGradientGenerate
    \/ GenerateDistinctPalette
    \/ ApplyEasing
    \/ MatchingKeeps
    \/ Chain

SpecFunctions == InitColor /\ [][NextFunctions]_vars

\* ------------------------------------------------------------------------
\* Properties of the palette functions
\* ------------------------------------------------------------------------
Brightness(color) == color.rgb[1] + color.rgb[2] + color.rgb[3]

\* C21: a non-empty monochrome palette starts no brighter (R+G+B) than it
\* ends, and for steps >= 2 it has at least steps - 1 entries
C21_MonochromeDarkToLight ==
    (Returned /\ op.name = "PaletteGenerator::generate_monochrome_palette") =>
        /\ found # <<>> => Brightness(found[1]) <= Brightness(found[Len(found)])
        /\ op.args[2] >= 2 => Len(found) >= op.args[2] - 1

\* five steps around a saturated base colour: four entries, the first darker
\* than the last
C21_Witness ==
    /\ Returned
    /\ op.name = "PaletteGenerator::generate_monochrome_palette"
    /\ op.args = <<<<255, 0, 0>>, 5>>
    /\ Len(found) = 4
    /\ Brightness(found[1]) < Brightness(found[4])

\* ------------------------------------------------------------------------
\* Properties of BlockFilter
\* ------------------------------------------------------------------------
\* the id of the block of an allows_block call contains an include pattern
MatchesInclude(call) ==
    \E k \in DOMAIN call.args[1].include_patterns :
        contains(to_lowercase(id(call.args[2])),
                 to_lowercase(call.args[1].include_patterns[k]))

\* C22: with include patterns present, a block whose id contains one of them
\* is allowed whatever the exclude patterns and flags say, and a block whose id
\* contains none of them is rejected
C22_IncludeOverrides ==
    (Returned /\ op.name = "allows_block" /\ op.args[1].include_patterns # <<>>) =>
        found = MatchesInclude(op)

\* C23: default() allows every block, a block allowed by
\* structural_blocks_only() is allowed by solid_blocks_only(), and a block
\* allowed by solid_blocks_only() is allowed by default()
C23_PresetsOrdered ==
    (Returned /\ op.name = "allows_block") =>
        /\ op.args[1] = BlockFilter_default => found = TRUE
        /\ (op.args[1] = structural_blocks_only /\ found = TRUE) =>
              allows_block(solid_blocks_only, op.args[2])
        /\ (op.args[1] = solid_blocks_only /\ found = TRUE) =>
              allows_block(BlockFilter_default, op.args[2])

\* structural_blocks_only() allows the block of the call, and the presets
\* differ: some block passes solid_blocks_only() but not
\* structural_blocks_only(), some block passes neither
C23_Witness ==
    /\ Returned
    /\ op.name = "allows_block"
    /\ op.args[1] = structural_blocks_only
    /\ found = TRUE
    /\ \E b \in 1..NumUniverse :
          allows_block(solid_blocks_only, b) /\ ~allows_block(structural_blocks_only, b)
    /\ \E b \in 1..NumUniverse : ~allows_block(solid_blocks_only, b)

\* ------------------------------------------------------------------------
\* Properties of ColorGradient
\* ------------------------------------------------------------------------
\* C24: with two or more anchors and steps >= 2, generate returns exactly steps
\* colours, and with LinearRgb the first of them is the first anchor and the
\* last of them is the last anchor
C24_GradientExact ==
    (/\ Returned
     /\ op.name = "ColorGradient::generate"
     /\ Len(op.args[1]) >= 2
     /\ op.args[3] >= 2) =>
        /\ Len(found) = op.args[3]
        /\ op.args[2] = "LinearRgb" =>
              /\ found[1] = op.args[1][1]
              /\ found[Len(found)] = op.args[1][Len(op.args[1])]

\* ------------------------------------------------------------------------
\* Properties of PaletteGenerator::generate_distinct_palette
\* ------------------------------------------------------------------------
\* C25: the result has at most max_colors colours, each of them a colour of
\* the input, and it is the input itself when the input has at most
\* max_colors colours
C25_DistinctBounded ==
    (Returned /\ op.name = "generate_distinct_palette") =>
        /\ Len(found) <= op.args[2]
        /\ \A k \in DOMAIN found : found[k] \in Range(op.args[1])
        /\ Len(op.args[1]) <= op.args[2] => found = op.args[1]

\* ------------------------------------------------------------------------
\* Query chains running side by side
\*
\* A BlockQuery owns its Vec of block references; every chain method takes
\* the query by value and changes that Vec in place.  In this specification
\* `blocks` is the heap of Vec buffers (buffer 1 belongs to the query the
\* chains clone from), prev[c] is the buffer chain c owns (0 before the chain
\* is started), op[c] is the list of operations chain c has applied, pc[c]
\* its position, and `found` the contents the cloned query was built with.
\* ------------------------------------------------------------------------
Chains == {1, 2}

ChainOps == {"only_solid", "with_color", "sort_by_name", "limit"}

\* mutant: the clone shares the buffer of the query it was cloned from
BlockQuery_clone_Alias(heap, self) == <<heap, self>>

\* #[derive(Clone)]: a new Vec with the same references; the result is the
\* heap after the allocation and the new buffer
BlockQuery_clone(heap, self) == <<Append(heap, heap[self]), Len(heap) + 1>>

\* one method of the chain applied to the contents of a Vec
ChainStep(name, self) ==
    CASE name = "only_solid" -> only_solid(self)
      [] name = "with_color" -> with_color(self)
      [] name = "sort_by_name" -> sort_by_name(self)
      [] name = "limit" -> limit(self, 1)

InitChains ==
    /\ BLOCKS \in Catalogs
    /\ blocks = <<exclude_falling(AllBlocks_new)>>
    /\ pc = [c \in Chains |-> "start"]
    /\ prev = [c \in Chains |-> 0]
    /\ op = [c \in Chains |-> <<>>]
    /\ found = exclude_falling(AllBlocks_new)

\* AllBlocks::new() collects the catalog into a Vec of its own
ChainAllBlocksNew ==
    \E c \in Chains :
        /\ pc[c] = "start"
        /\ blocks' = Append(blocks, AllBlocks_new)
        /\ prev' = [prev EXCEPT ![c] = Len(blocks) + 1]
        /\ op' = [op EXCEPT ![c] = <<"new">>]
        /\ pc' = [pc EXCEPT ![c] = "ready"]
        /\ UNCHANGED <<BLOCKS, found>>

ChainClone ==
    \E c \in Chains :
        /\ pc[c] = "start"
        /\ blocks' = BlockQuery_clone(blocks, 1)[1]
        /\ prev' = [prev EXCEPT ![c] = BlockQuery_clone(blocks, 1)[2]]
        /\ op' = [op EXCEPT ![c] = <<"clone">>]
        /\ pc' = [pc EXCEPT ![c] = "ready"]
        /\ UNCHANGED <<BLOCKS, found>>

ChainMethod ==
    \E c \in Chains, name \in ChainOps :
        /\ pc[c] = "ready"
        /\ Len(op[c]) <= MaxChainOps
        /\ blocks' = [blocks EXCEPT ![prev[c]] = ChainStep(name, @)]
        /\ op' = [op EXCEPT ![c] = Append(@, name)]
        /\ UNCHANGED <<BLOCKS, pc, prev, found>>

NextChains ==
    \/ ChainAllBlocksNew
    \/ ChainClone
    \/ ChainMethod

SpecChains == InitChains /\ [][NextChains]_vars

\* the working set a chain that applied `history` has when it runs alone
RECURSIVE RunAlone(_)
RunAlone(history) ==
    IF Len(history) = 1
    THEN IF history[1] = "new" THEN AllBlocks_new ELSE found
    ELSE ChainStep(history[Len(history)],
                   RunAlone(SubSeq(history, 1, Len(history) - 1)))

\* C26: query chains that run interleaved do not affect each other: every
\* started chain holds the working set it has when it runs alone, the query
\* the chains were cloned from keeps its contents, no step changes the
\* catalog, and a step changes no working set but the acting chain's.
C26_ChainsIndependent ==
    /\ [](/\ blocks[1] = found
          /\ \A c \in Chains :
                pc[c] = "ready" => blocks[prev[c]] = RunAlone(op[c]))
    /\ [][/\ BLOCKS' = BLOCKS
          /\ \A c \in Chains :
                (pc[c] = "ready" /\ op'[c] = op[c])
                    => blocks'[prev[c]] = blocks[prev[c]]]_vars

\* both chains were cloned from a query that holds a block without colour
\* and a block that is not solid; one filtered by colour, the other by
\* solidity, and each holds its own result
C26_Witness ==
    /\ op[1] = <<"clone", "with_color">>
    /\ op[2] = <<"clone", "only_solid">>
    /\ blocks[prev[1]] # blocks[prev[2]]
    /\ blocks[prev[1]] # found
    /\ blocks[prev[2]] # found

\* ------------------------------------------------------------------------
\* Properties of sorting, easing, matching and gradient generation
\* ------------------------------------------------------------------------
\* v without the first occurrence of x
RemoveFirst(v, x) ==
    LET i == CHOOSE i \in DOMAIN v : v[i] = x /\ \A j \in 1..(i - 1) : v[j] # x
    IN  remove(v, i - 1)

\* the coloured members not yet placed before position k of `placed`
RECURSIVE NotYetPlaced(_, _, _)
NotYetPlaced(input, placed, k) ==
    IF k = 1 THEN input
    ELSE RemoveFirst(NotYetPlaced(input, placed, k - 1), placed[k - 1])

\* `placed` is the greedy nearest-neighbour order of `input`
IsGreedyOrder(placed, input) ==
    /\ IsPermutation(placed, input)
    /\ input # <<>> => placed[1] = input[1]
    /\ \A k \in 2..Len(placed) :
           LET remaining == NotYetPlaced(input, placed, k)
               dist(b) == distance_oklab(color_of(b), color_of(placed[k - 1]))
           IN  \E i \in DOMAIN remaining :
                   /\ remaining[i] = placed[k]
                   /\ \A j \in DOMAIN remaining :
                          /\ dist(remaining[i]) <= dist(remaining[j])
                          /\ j < i => dist(remaining[i]) < dist(remaining[j])

\* C27: sort_by_color_gradient returns the coloured members of its input in
\* greedy nearest-neighbour order (first coloured member first, then always
\* the closest remaining one, the earliest on a tie) and never returns a
\* member without colour.
C27_GreedyGradientOrder ==
    (Returned /\ op.name = "sort_by_color_gradient")
    => /\ \A i \in DOMAIN blocks : HasColor(blocks[i])
       /\ IsGreedyOrder(blocks, SelectSeq(prev, HasColor))

\* C28: apply_easing maps 0 to 0 and 1 to 1, maps [0, 1] into [0, 1], and
\* is non-decreasing, for every easing function.
C28_EasingMonotone ==
    (Returned /\ op.name = "apply_easing")
    => LET t == op.args[1]
           easing == op.args[2]
       IN  /\ t = F32_ZERO => found = F32_ZERO
           /\ t = F32_ONE => found = F32_ONE
           /\ f32_le(F32_ZERO, found) /\ f32_le(found, F32_ONE)
           /\ \A i \in DOMAIN F32Samples :
                  f32_le(F32Samples[i], t)
                      => f32_le(apply_easing_f32(F32Samples[i], easing), found)

\* text is the pattern with each '*' replaced by a possibly empty string
RECURSIVE WildcardMatch(_, _)
WildcardMatch(text, pattern) ==
    IF pattern = <<>> THEN text = <<>>
    ELSE IF pattern[1] = "*"
         THEN \E k \in 0..Len(text) :
                  WildcardMatch(SubSeq(text, k + 1, Len(text)), Tail(pattern))
    ELSE /\ text # <<>>
         /\ text[1] = pattern[1]
         /\ WildcardMatch(Tail(text), Tail(pattern))

\* C29: matching keeps a block exactly if its lower-cased id is the
\* lower-cased pattern with every '*' replaced by some string (literal parts
\* in order and not overlapping), or, for a pattern without '*', if the id
\* contains the pattern.
C29_AnchoredWildcard ==
    (Returned /\ op.name = "matching" /\ pc = "returned_start")
    => LET lid == to_lowercase(id(op.args[1]))
           pattern == to_lowercase(op.args[2])
       IN  found = IF \E i \in DOMAIN pattern : pattern[i] = "*"
                   THEN WildcardMatch(lid, pattern)
                   ELSE contains(lid, pattern)

\* the configuration with another sampling method
WithSampling(config, method) == [config EXCEPT !.sampling_method = method]

====
